---- MODULE Spec2Model ----
(***************************************************************************)
(* A model of azure-architect/youtube_ollama.                              *)
(*                                                                         *)
(* Two parts of the repository are modelled:                               *)
(*   - the node workflow: WorkflowManager.run_workflow, which runs         *)
(*     YouTubeTranscriptAgent.run (metadata fetch, transcript fetch) and   *)
(*     TranscriptAnalysisNode.process (model invocation, extraction by     *)
(*     the transcript-insights agent);                                     *)
(*   - the strict decoding of a model output, as the transcript-insights   *)
(*     agent does it (_parse_json_response) and as BaseAgent does it       *)
(*     (parse_structured_output).                                          *)
(*                                                                         *)
(* nodes/transcript_analysis_node.py imports the agent class under the     *)
(* name TranscriptInsightAgent; the module it imports from defines         *)
(* TranscriptInsightsAgent.  The model takes the node's agent to be the    *)
(* class that module defines.  models/data_models.py is not among the      *)
(* sources: its record constructors are modelled from the specification.   *)
(***************************************************************************)
EXTENDS Integers, Sequences, FiniteSets, TLC

VARIABLES
    pc,          \* position of the run_workflow coroutine
    state,       \* WorkflowManager.state (a WorkflowState)
    mgrSave,     \* WorkflowManager.save_output
    args,        \* the arguments of the current run_workflow call
    apiKey,      \* whether YT_DATA_API_KEY is set in the environment
    video_id,    \* run_workflow's local video_id (Optional[str])
    agentMeta,   \* YouTubeTranscriptAgent.run's local video_data
    agentSegs,   \* YouTubeTranscriptAgent.run's local transcript_segments
    videoRec,    \* the YouTubeVideoData the transcript agent returns
    nodeState,   \* the state dict TranscriptAnalysisNode.process works on
    response,    \* the text _get_model_response returned
    analysis,    \* the VideoAnalysisData the insights agent returned
    now,         \* the clock datetime.now() reads
    runs,        \* number of run_workflow calls made so far
    calls,       \* history: the stages attempted in this run, in order
    outcome,     \* history: what each stage of this run did
    ptext,       \* decoding: the model output under test
    pphase,      \* decoding: "input", or the parser that has been applied
    presult,     \* decoding: what the parser produced
    ftext,       \* fallback: raw_text, as the lines raw_text.split('\n') gives
    finput,      \* fallback: the agent's self.input_data
    flocals,     \* fallback: the locals the last fallback_parsing call ended with
    fresults,    \* fallback: the records the fallback_parsing calls returned
    tvalue,      \* timestamps: the text _extract_timestamps is applied to
    tphase,      \* timestamps: "off", "input" or "done"
    tresult,     \* timestamps: the mapping _extract_timestamps returned
    dvalue,      \* durations: the argument of _parse_duration
    dresult,     \* durations: how the _parse_duration call ended
    cfile,       \* cache: the content of channel_cache.json (None: no file)
    cmem,        \* cache: each process's global channel_cache
    cpc,         \* cache: each process's position
    clocal,      \* cache: each process's locals in get_channel_data
    cclock,      \* cache: the clock datetime.utcnow() reads, in days
    ccount,      \* cache: the number of get_channel_data calls made
    cloads,      \* cache history: the file each process's load_channel_cache read
    ccalls,      \* cache history: each process's last get_channel_data call
    heap,        \* calls: the WorkflowState objects made so far
    mgrs,        \* calls: each WorkflowManager's state (an object) and save_output
    coros,       \* calls: each run_workflow coroutine's position and locals
    rnow         \* calls: the clock datetime.now() reads

wfVars == <<pc, state, mgrSave, args, apiKey, video_id, agentMeta, agentSegs,
            videoRec, nodeState, response, analysis, now, runs, calls, outcome>>
parseVars == <<ptext, pphase, presult>>
fbVars == <<ftext, finput, flocals, fresults>>
tsVars == <<tvalue, tphase, tresult>>
durVars == <<dvalue, dresult>>
cacheVars == <<cfile, cmem, cpc, clocal, cclock, ccount, cloads, ccalls>>
concVars == <<heap, mgrs, coros, rnow>>
lateVars == <<durVars, cacheVars, concVars>>
extVars == <<fbVars, tsVars, lateVars>>
vars == <<wfVars, parseVars, extVars>>

(***************************************************************************)
(* Bounds of the model.                                                    *)
(***************************************************************************)
MaxRuns == 2        \* run_workflow calls made on one WorkflowManager
MaxTextLen == 4     \* tokens of an enumerated model output

(***************************************************************************)
(* Optional[T]: None, or a value.  Python's `not x` for Optional[str].     *)
(***************************************************************************)
None == <<>>
Some(x) == <<x>>
IsSome(o) == Len(o) = 1
Val(o) == o[1]

\* dict.get(key, default) on a mapping modelled as a function on its keys
Get(d, k, default) == IF k \in DOMAIN d THEN d[k] ELSE default

\* the empty dict {}
EmptyDict == [k \in {} |-> None]

(***************************************************************************)
(* URLs and video ids.  A video id is a sequence of characters.  A URL is  *)
(* what urlparse and parse_qs make of it: its netloc, the shape of its     *)
(* path ("root" for an empty path, "id" for /<id>, "watch" for /watch,     *)
(* "embed" for /embed/<id>, "v" for /v/<id>, "other"), the id in the path  *)
(* and the first non-blank value of the query parameter v, if any.         *)
(***************************************************************************)
IdA == <<"a">>
IdB == <<"b">>
IdAmp == <<"&", "a">>      \* an id that starts with the query separator
NoId == <<>>               \* the empty string

Url(netloc, shape, id, v) == [netloc |-> netloc, shape |-> shape, id |-> id, v |-> v]

Urls ==
    { Url("youtu.be", "id", IdA, None),
      Url("youtu.be", "id", IdAmp, None),
      Url("youtu.be", "root", NoId, None),
      Url("www.youtube.com", "watch", NoId, Some(IdA)),
      Url("youtube.com", "watch", NoId, None),
      Url("www.youtube.com", "embed", IdB, None),
      Url("youtube.com", "v", IdA, None),
      Url("youtube.com", "other", NoId, None),
      Url("example.com", "watch", NoId, Some(IdA)) }

\* `video_id is None`: a test that lets the empty id pass
Falsy_none_only(o) == o = None

\* `not video_id` for an Optional[str]
Falsy(o) == o = None \/ Val(o) = NoId

\* api_services/transcript_service.py, get_video_id_from_url
get_video_id_from_url(url) ==
    IF url.netloc = "youtu.be"
    THEN Some(url.id)                                   \* path[1:]
    ELSE IF url.netloc \in {"www.youtube.com", "youtube.com"}
    THEN IF url.shape = "watch"
         THEN url.v                 \* query_params['v'][0]; KeyError gives None
         ELSE IF url.shape \in {"embed", "v"}
         THEN Some(url.id)                              \* path.split('/')[2]
         ELSE None
    ELSE None

\* The characters of s before its first "&" (all of s when it has none).
BeforeAmp(s) ==
    LET amps == {i \in 1..Len(s) : s[i] = "&"}
    IN  IF amps = {} THEN s
        ELSE SubSeq(s, 1, (CHOOSE i \in amps : \A j \in amps : i <= j) - 1)

\* f"https://www.youtube.com/watch?v={video_id}" as urlparse and parse_qs
\* read it back: the query is split at "&" and blank values are dropped.
WatchUrl(id) ==
    Url("www.youtube.com", "watch", NoId,
        IF BeforeAmp(id) = NoId THEN None ELSE Some(BeforeAmp(id)))

(***************************************************************************)
(* The external collaborators' answers.                                    *)
(***************************************************************************)
ApiOutcomes == {"ok", "no_items", "http_error", "exception"}
TranscriptOutcomes == {"ok", "ok_empty", "raises", "bad_items"}
ModelOutcomes == {"ok", "no_response_key", "http_error", "timeout"}
FileOutcomes == {"ok", "raises"}

\* api_services/youtube_data_api.py, get_youtube_video_data: the mapping
\* it returns for a video the API knows, None for every failure.
get_youtube_video_data(id, apiOutcome) ==
    IF apiOutcome = "ok"
    THEN Some([video |-> [id |-> id, title |-> "Fetched title",
                          description |-> "Fetched description",
                          views |-> Some(7)],
               channel |-> [id |-> "UC1", title |-> "Fetched channel"]])
    ELSE None

\* The transcript the transcript API returns for a video that has one.
ApiTranscript == << [text |-> "hello", start |-> 0, duration |-> 5],
                    [text |-> "world", start |-> 5, duration |-> 4] >>

\* api_services/transcript_service.py, get_video_transcript_data
get_video_transcript_data(url, trOutcome) ==
    IF Falsy(get_video_id_from_url(url)) THEN None
    ELSE IF trOutcome = "raises" THEN None
    ELSE Some([video_id |-> Val(get_video_id_from_url(url)),
               transcript |-> IF trOutcome = "ok_empty" THEN <<>> ELSE ApiTranscript])

(***************************************************************************)
(* YouTubeVideoData as YouTubeTranscriptAgent.run builds it.               *)
(***************************************************************************)
\* lines 103-134: the record built from the API mapping
VideoDataFromApi(id, meta, segs) ==
    LET raw_snippet == Get(meta, "snippet", EmptyDict)
        raw_statistics == Get(meta, "statistics", EmptyDict)
    IN  [video_id |-> id,
         title |-> Get(raw_snippet, "title", "No title"),
         description |-> Get(raw_snippet, "description", "No description"),
         channel |-> Get(raw_snippet, "channelTitle", "Unknown"),
         channel_id |-> Get(raw_snippet, "channelId", "Unknown"),
         published_at |-> Get(raw_snippet, "publishedAt", ""),
         transcript |-> segs,
         view_count |-> IF "viewCount" \in DOMAIN raw_statistics
                        THEN Some(raw_statistics["viewCount"]) ELSE None,
         duration |-> 0]

\* lines 137-147 and 160-170: the minimal record
VideoDataMinimal(id, segs) ==
    [video_id |-> id,
     title |-> "Error retrieving data",
     description |-> "An error occurred while retrieving video data",
     channel |-> "Unknown",
     channel_id |-> "Unknown",
     published_at |-> "Unknown",
     transcript |-> segs,
     view_count |-> None,
     duration |-> 0]

(***************************************************************************)
(* Model outputs.  A text is a sequence of tokens: an opening brace, a     *)
(* closing brace, an opening fence ```json, a closing fence ```, a run of  *)
(* prose, a bare JSON number, or one `"key": value` member of a JSON       *)
(* object.  White space and the commas between members are left out.  A   *)
(* member whose value is itself an object or a list of objects occurs      *)
(* only inside an enclosing pair of braces.                                *)
(***************************************************************************)
LB == [t |-> "lb"]
RB == [t |-> "rb"]
FO == [t |-> "fo"]
FC == [t |-> "fc"]
W == [t |-> "w"]
NUM == [t |-> "num"]
KV(k, v) == [t |-> "kv", k |-> k, v |-> v]

Min(S) == CHOOSE x \in S : \A y \in S : x <= y
Max(S) == CHOOSE x \in S : \A y \in S : x >= y

\* The mapping a sequence of members decodes to: the last value of a
\* repeated key wins, as in json.loads.
KvMap(kvs) ==
    [k \in {kvs[i].k : i \in 1..Len(kvs)} |->
        kvs[Max({i \in 1..Len(kvs) : kvs[i].k = k})].v]

\* json.loads: ok is FALSE where it raises JSONDecodeError.
json_loads(toks) ==
    LET n == Len(toks) IN
    IF n = 1 /\ toks[1].t = "num"
    THEN [ok |-> TRUE, isdict |-> FALSE, map |-> EmptyDict]
    ELSE IF /\ n >= 2
            /\ toks[1].t = "lb"
            /\ toks[n].t = "rb"
            /\ \A i \in 2..(n - 1) : toks[i].t = "kv"
    THEN [ok |-> TRUE, isdict |-> TRUE, map |-> KvMap(SubSeq(toks, 2, n - 1))]
    ELSE [ok |-> FALSE, isdict |-> FALSE, map |-> EmptyDict]

\* re.search(r'```json\s*([\s\S]*?)\s*```', response): group 1, or None.
\* The lazy group ends at the first ``` after the opening fence, and an
\* opening fence starts with ``` too.
FencedGroup(toks) ==
    LET opens == {i \in 1..Len(toks) : toks[i].t = "fo"} IN
    IF opens = {} THEN None
    ELSE LET i == Min(opens)
             closes == {j \in (i + 1)..Len(toks) : toks[j].t \in {"fc", "fo"}}
         IN  IF closes = {} THEN None
             ELSE Some(SubSeq(toks, i + 1, Min(closes) - 1))

\* re.search(r'({[\s\S]*})', response): group 1, or None.  The greedy
\* group runs from the first opening brace to the last closing brace.
BraceGroup(toks) ==
    LET opens == {i \in 1..Len(toks) : toks[i].t = "lb"} IN
    IF opens = {} THEN None
    ELSE LET i == Min(opens)
             closes == {j \in (i + 1)..Len(toks) : toks[j].t = "rb"}
         IN  IF closes = {} THEN None
             ELSE Some(SubSeq(toks, i, Max(closes)))

\* A parser that decodes the entire response only, without looking for a
\* fenced block or a brace span.
parse_json_response_whole(toks) ==
    json_loads(toks)

\* TranscriptInsightsAgent._parse_json_response
parse_json_response(toks) ==
    IF IsSome(FencedGroup(toks)) THEN json_loads(Val(FencedGroup(toks)))
    ELSE IF IsSome(BraceGroup(toks)) THEN json_loads(Val(BraceGroup(toks)))
    ELSE json_loads(toks)

(***************************************************************************)
(* The analysis record of the node workflow (models/data_models.py).       *)
(***************************************************************************)
\* VideoAnalysisData(original_data=video): every other field at its default
VideoAnalysisDefaults(video) ==
    [original_data |-> video,
     summary |-> "",
     main_topics |-> <<>>,
     key_points |-> <<>>,
     software_mentions |-> <<>>,
     topic_segments |-> <<>>,
     sentiment |-> "unknown",
     target_audience |-> <<>>,
     language_level |-> "unknown",
     content_quality |-> 5]

\* SoftwareMention(name=item.get("name", ""), description=item.get(...))
SoftwareMention(item) ==
    [name |-> Get(item, "name", ""), description |-> Get(item, "description", "")]

\* TranscriptInsightsAgent.run, lines 114-126: the record built from the
\* decoded mapping
InsightsRecord(video, map) ==
    LET sm == Get(map, "software_mentions", <<>>) IN
    [VideoAnalysisDefaults(video) EXCEPT
        !.summary = Get(map, "summary", ""),
        !.main_topics = Get(map, "main_topics", <<>>),
        !.key_points = Get(map, "key_points", <<>>),
        !.software_mentions = [i \in 1..Len(sm) |-> SoftwareMention(sm[i])]]

\* The names re.findall(r'"name"\s*:\s*"([^"]+)"', raw_text) finds in one token
NamesIn(tok) ==
    IF tok.t # "kv" THEN <<>>
    ELSE IF tok.k = "name" THEN (IF tok.v = "" THEN <<>> ELSE <<tok.v>>)
    ELSE IF tok.k = "software_mentions"
    THEN LET named == {i \in 1..Len(tok.v) :
                          "name" \in DOMAIN tok.v[i] /\ tok.v[i]["name"] # ""}
             Nth(S, n) == CHOOSE i \in S : Cardinality({j \in S : j <= i}) = n
         IN  [n \in 1..Cardinality(named) |-> tok.v[Nth(named, n)]["name"]]
    ELSE <<>>

RECURSIVE NamesOf(_)
NamesOf(toks) ==
    IF toks = <<>> THEN <<>> ELSE NamesIn(Head(toks)) \o NamesOf(Tail(toks))

\* TranscriptInsightsAgent.fallback_parsing
insights_fallback_parsing(raw, input_data) ==
    LET sums == {i \in 1..Len(raw) :
                    raw[i].t = "kv" /\ raw[i].k = "summary" /\ raw[i].v # ""}
        names == NamesOf(raw)
    IN  [VideoAnalysisDefaults(input_data) EXCEPT
            !.summary = IF sums = {} THEN "Summary extraction failed"
                        ELSE raw[Min(sums)].v,
            !.software_mentions =
                [i \in 1..Len(names) |->
                    [name |-> names[i],
                     description |-> "Extracted via fallback parsing"]]]

\* A run without the handler of lines 131-133: the error of a failed
\* parse leaves run.
insights_extract_raising(video, resp) ==
    LET d == parse_json_response(resp) IN
    IF d.ok /\ d.isdict
    THEN [path |-> "strict", rec |-> InsightsRecord(video, d.map)]
    ELSE [path |-> "raised"]

\* TranscriptInsightsAgent.run, lines 112-133, on a model response: the
\* record and the path that produced it.  A decode that raises, or a
\* decoded value that is no mapping (.get raises), goes to the fallback.
insights_extract(video, resp) ==
    LET d == parse_json_response(resp) IN
    IF d.ok /\ d.isdict
    THEN [path |-> "strict", rec |-> InsightsRecord(video, d.map)]
    ELSE [path |-> "fallback", rec |-> insights_fallback_parsing(resp, video)]

(***************************************************************************)
(* WorkflowState (state/workflow_state.py).                                *)
(***************************************************************************)
\* WorkflowState(): every field at its default
DefaultWorkflowState ==
    [video_id |-> None,
     video_url |-> None,
     model_name |-> None,
     transcript_extraction_completed |-> FALSE,
     transcript_analysis_completed |-> FALSE,
     video_data |-> None,
     analysis_result |-> None,
     error |-> None,
     error_node |-> None,
     start_time |-> None,
     end_time |-> None]

\* WorkflowManager._init_state
init_state(video_url, model_name, t) ==
    [DefaultWorkflowState EXCEPT
        !.video_url = Some(video_url),
        !.model_name = model_name,
        !.start_time = Some(t)]

ModelNames == {None, Some("mistral:latest")}

\* str(e) of the OSError open() raises when the output file cannot be written
FileError == "[Errno 2] No such file or directory"

\* The text _get_model_response returns when the request fails:
\* f"Error: {str(e)}", prose without braces or fences.
ErrorText == <<W>>

\* The model outputs the workflow is run on.
SummaryX == KV("summary", "x")
ModelTexts ==
    { <<FO, LB, SummaryX, KV("main_topics", <<"a">>), KV("key_points", <<"b">>), RB, FC>>,
      <<LB, SummaryX, RB>>,
      <<W, LB, SummaryX, KV("sentiment", "positive"), RB, W>>,
      <<LB, SummaryX, RB, W, LB, RB>>,
      <<FO, W, FC, LB, SummaryX, RB>>,
      <<W, SummaryX>>,
      <<NUM>>,
      <<>> }

NoOutcome ==
    [metadata |-> "none", transcript |-> "none", model |-> "none",
     extract |-> "none", node_file |-> "none", state_file |-> "none"]

\* A handler that does not catch the error of a failed write: the error
\* leaves run_workflow.
run_workflow_except_narrow(st, msg, t) ==
    [state |-> st, pc |-> "escaped"]

\* run_workflow, lines 99-104: the handler of `except Exception`.  It
\* yields the state the call returns and where the coroutine ends.
run_workflow_except(st, msg, t) ==
    [state |-> [st EXCEPT !.error = Some(msg),
                          !.error_node = Some("workflow_manager"),
                          !.end_time = Some(t)],
     pc |-> "returned"]

\* YouTubeTranscriptAgent._process_transcript
process_transcript(items) ==
    [i \in 1..Len(items) |->
        [text |-> Get(items[i], "text", ""),
         start |-> Get(items[i], "start", 0),
         duration |-> Get(items[i], "duration", None)]]

(***************************************************************************)
(* The node workflow.                                                      *)
(***************************************************************************)
WfInit ==
    /\ pc = "idle"
    /\ state = DefaultWorkflowState
    /\ mgrSave = TRUE
    /\ args = [url |-> Url("", "root", NoId, None), model_name |-> None,
               save_output |-> FALSE]
    /\ apiKey = FALSE
    /\ video_id = None
    /\ agentMeta = None
    /\ agentSegs = <<>>
    /\ videoRec = None
    /\ nodeState = None
    /\ response = <<>>
    /\ analysis = None
    /\ now = 0
    /\ runs = 0
    /\ calls = <<>>
    /\ outcome = NoOutcome

ParseIdle ==
    /\ ptext = <<>>
    /\ pphase = "off"
    /\ presult = [path |-> "none"]

\* Neither fallback_parsing nor _extract_timestamps is under way.
DurIdle ==
    /\ dvalue = None
    /\ dresult = None

CacheIdle ==
    /\ cfile = None
    /\ cmem = <<>>
    /\ cpc = <<>>
    /\ clocal = <<>>
    /\ cclock = 0
    /\ ccount = 0
    /\ cloads = <<>>
    /\ ccalls = <<>>

ConcIdle ==
    /\ heap = <<>>
    /\ mgrs = <<>>
    /\ coros = <<>>
    /\ rnow = 0

LateIdle == DurIdle /\ CacheIdle /\ ConcIdle

ExtIdle ==
    /\ LateIdle
    /\ ftext = <<>>
    /\ finput = None
    /\ flocals = None
    /\ fresults = <<>>
    /\ tvalue = ""
    /\ tphase = "off"
    /\ tresult = EmptyDict

\* run_workflow, lines 43-52: a call; the previous call has returned.
Call(u, m, s, k) ==
    /\ pc \in {"idle", "returned"}
    /\ runs < MaxRuns
    /\ runs' = runs + 1
    /\ args' = [url |-> u, model_name |-> m, save_output |-> s]
    /\ apiKey' = k
    /\ state' = init_state(u, m, now)
    /\ now' = now + 1
    /\ mgrSave' = s
    /\ video_id' = None
    /\ agentMeta' = None
    /\ agentSegs' = <<>>
    /\ videoRec' = None
    /\ nodeState' = None
    /\ response' = <<>>
    /\ analysis' = None
    /\ calls' = <<>>
    /\ outcome' = NoOutcome
    /\ pc' = "extract_id"
    /\ UNCHANGED <<parseVars, extVars>>

\* run_workflow, lines 54-61
ExtractVideoId ==
    /\ pc = "extract_id"
    /\ video_id' = get_video_id_from_url(args.url)
    /\ IF Falsy(video_id')
       THEN /\ state' = [state EXCEPT !.error = Some("Invalid YouTube URL"),
                                      !.error_node = Some("workflow_manager")]
            /\ pc' = "returned"
       ELSE /\ state' = state
            /\ pc' = "get_api_key"
    /\ UNCHANGED <<mgrSave, args, apiKey, agentMeta, agentSegs, videoRec,
                   nodeState, response, analysis, now, runs, calls, outcome>>
    /\ UNCHANGED <<parseVars, extVars>>

\* run_workflow, lines 63-72
GetApiKey ==
    /\ pc = "get_api_key"
    /\ IF ~apiKey
       THEN /\ state' = [state EXCEPT !.error = Some("Missing YouTube API key"),
                                      !.error_node = Some("workflow_manager")]
            /\ pc' = "returned"
       ELSE /\ state' = state
            /\ pc' = "fetch_metadata"
    /\ UNCHANGED <<mgrSave, args, apiKey, video_id, agentMeta, agentSegs, videoRec,
                   nodeState, response, analysis, now, runs, calls, outcome>>
    /\ UNCHANGED <<parseVars, extVars>>

\* YouTubeTranscriptAgent.run, line 91: the metadata fetch
FetchMetadata(o) ==
    /\ pc = "fetch_metadata"
    /\ agentMeta' = get_youtube_video_data(Val(video_id), o)
    /\ calls' = Append(calls, "metadata")
    /\ outcome' = [outcome EXCEPT !.metadata = o]
    /\ pc' = "fetch_transcript"
    /\ UNCHANGED <<state, mgrSave, args, apiKey, video_id, agentSegs, videoRec,
                   nodeState, response, analysis, now, runs>>
    /\ UNCHANGED <<parseVars, extVars>>

\* YouTubeTranscriptAgent.run, lines 93-100: the transcript fetch and the
\* conversion of its items.  Items that are no mappings make
\* _process_transcript raise, which run's own handler catches.
FetchTranscript(o) ==
    /\ pc = "fetch_transcript"
    /\ LET result == get_video_transcript_data(WatchUrl(Val(video_id)), o) IN
        /\ outcome' = [outcome EXCEPT !.transcript =
                          IF IsSome(result) THEN o
                          ELSE IF o = "raises" THEN "raises" ELSE "null"]
        /\ IF IsSome(result) /\ o = "bad_items"
           THEN /\ agentSegs' = <<>>
                /\ pc' = "agent_except"
           ELSE /\ agentSegs' = IF IsSome(result)
                                THEN process_transcript(Val(result).transcript)
                                ELSE <<>>
                /\ pc' = "build_video_data"
    /\ calls' = Append(calls, "transcript")
    /\ UNCHANGED <<state, mgrSave, args, apiKey, video_id, agentMeta, videoRec,
                   nodeState, response, analysis, now, runs>>
    /\ UNCHANGED <<parseVars, extVars>>

\* YouTubeTranscriptAgent.run, lines 102-152
BuildVideoData ==
    /\ pc = "build_video_data"
    /\ videoRec' = Some(IF IsSome(agentMeta)
                        THEN VideoDataFromApi(Val(video_id), Val(agentMeta), agentSegs)
                        ELSE VideoDataMinimal(Val(video_id), agentSegs))
    /\ pc' = "update_state"
    /\ UNCHANGED <<state, mgrSave, args, apiKey, video_id, agentMeta, agentSegs,
                   nodeState, response, analysis, now, runs, calls, outcome>>
    /\ UNCHANGED <<parseVars, extVars>>

\* YouTubeTranscriptAgent.run, lines 154-175: its handler
AgentExcept ==
    /\ pc = "agent_except"
    /\ videoRec' = Some(VideoDataMinimal(Val(video_id), <<>>))
    /\ pc' = "update_state"
    /\ UNCHANGED <<state, mgrSave, args, apiKey, video_id, agentMeta, agentSegs,
                   nodeState, response, analysis, now, runs, calls, outcome>>
    /\ UNCHANGED <<parseVars, extVars>>

\* run_workflow, lines 75-84: the agent's record goes into the state, and
\* the state's dump is handed to the analysis node.
UpdateState ==
    /\ pc = "update_state"
    /\ state' = [state EXCEPT !.video_id = video_id,
                              !.video_data = videoRec,
                              !.transcript_extraction_completed = TRUE]
    /\ nodeState' = Some(state')
    /\ pc' = "node_begin"
    /\ UNCHANGED <<mgrSave, args, apiKey, video_id, agentMeta, agentSegs, videoRec,
                   response, analysis, now, runs, calls, outcome>>
    /\ UNCHANGED <<parseVars, extVars>>

\* TranscriptAnalysisNode.process, lines 30-42, and TranscriptInsightsAgent.run,
\* lines 98-110, up to the request _get_model_response awaits.  Without a
\* transcript the agent returns the default record and sends no request.
NodeBegin ==
    /\ pc = "node_begin"
    /\ LET st == Val(nodeState) IN
        IF st.video_data = None
        THEN /\ nodeState' = Some([st EXCEPT !.error = Some("Missing video data")])
             /\ pc' = "finalize"
             /\ UNCHANGED <<analysis, calls>>
        ELSE IF Val(st.video_data).transcript = <<>>
        THEN /\ analysis' = Some(VideoAnalysisDefaults(Val(st.video_data)))
             /\ pc' = "node_store"
             /\ UNCHANGED <<nodeState, calls>>
        ELSE /\ calls' = Append(calls, "model")
             /\ pc' = "model_wait"
             /\ UNCHANGED <<nodeState, analysis>>
    /\ UNCHANGED <<state, mgrSave, args, apiKey, video_id, agentMeta, agentSegs,
                   videoRec, response, now, runs, outcome>>
    /\ UNCHANGED <<parseVars, extVars>>

\* TranscriptInsightsAgent._get_model_response, lines 84-96: the answer to
\* the request, or the error text its handler returns.
ModelReturn(o, text) ==
    /\ pc = "model_wait"
    /\ o = "ok" \/ text = <<>>
    /\ response' = IF o = "ok" THEN text
                   ELSE IF o = "no_response_key" THEN <<>>
                   ELSE ErrorText
    /\ outcome' = [outcome EXCEPT !.model = o]
    /\ pc' = "extract"
    /\ UNCHANGED <<state, mgrSave, args, apiKey, video_id, agentMeta, agentSegs,
                   videoRec, nodeState, analysis, now, runs, calls>>
    /\ UNCHANGED <<parseVars, extVars>>

\* TranscriptInsightsAgent.run, lines 112-133: the extraction
Extract ==
    /\ pc = "extract"
    /\ LET r == insights_extract(Val(Val(nodeState).video_data), response) IN
        /\ analysis' = Some(r.rec)
        /\ outcome' = [outcome EXCEPT !.extract = r.path]
    /\ calls' = Append(calls, "extract")
    /\ pc' = "node_store"
    /\ UNCHANGED <<state, mgrSave, args, apiKey, video_id, agentMeta, agentSegs,
                   videoRec, nodeState, response, now, runs>>
    /\ UNCHANGED <<parseVars, extVars>>

\* TranscriptAnalysisNode.process, lines 44-65: the result is stored, the
\* output file written when asked for; a failed write goes to the node's
\* handler.
NodeStore(f) ==
    /\ pc = "node_store"
    /\ args.save_output \/ f = "ok"
    /\ LET st == [Val(nodeState) EXCEPT !.analysis_result = analysis] IN
        nodeState' =
            Some(IF args.save_output /\ f = "raises"
                 THEN [st EXCEPT !.error = Some(FileError),
                                 !.transcript_analysis_completed = FALSE]
                 ELSE [st EXCEPT !.transcript_analysis_completed = TRUE])
    /\ outcome' = [outcome EXCEPT !.node_file = IF args.save_output THEN f ELSE "none"]
    /\ pc' = "finalize"
    /\ UNCHANGED <<state, mgrSave, args, apiKey, video_id, agentMeta, agentSegs,
                   videoRec, response, analysis, now, runs, calls>>
    /\ UNCHANGED <<parseVars, extVars>>

\* run_workflow, lines 86-104: the node's state becomes the manager's, the
\* end time is set, the state file is written when asked for, and the call
\* returns; a failed write goes to the handler of run_workflow.
Finalize(f) ==
    /\ pc = "finalize"
    /\ LET st == [Val(nodeState) EXCEPT !.end_time = Some(now)]
           saves == mgrSave /\ ~Falsy(st.video_id)
       IN  /\ saves \/ f = "ok"
           /\ outcome' = [outcome EXCEPT !.state_file = IF saves THEN f ELSE "none"]
           /\ IF saves /\ f = "raises"
              THEN /\ state' = run_workflow_except(st, FileError, now + 1).state
                   /\ pc' = run_workflow_except(st, FileError, now + 1).pc
                   /\ now' = now + 2
              ELSE /\ state' = st
                   /\ pc' = "returned"
                   /\ now' = now + 1
    /\ UNCHANGED <<mgrSave, args, apiKey, video_id, agentMeta, agentSegs, videoRec,
                   nodeState, response, analysis, runs, calls>>
    /\ UNCHANGED <<parseVars, extVars>>

\* The steps of a run_workflow call once it has been made.
RunStep ==
    \/ ExtractVideoId
    \/ GetApiKey
    \/ \E o \in ApiOutcomes : FetchMetadata(o)
    \/ \E o \in TranscriptOutcomes : FetchTranscript(o)
    \/ BuildVideoData
    \/ AgentExcept
    \/ UpdateState
    \/ NodeBegin
    \/ \E o \in ModelOutcomes, text \in ModelTexts : ModelReturn(o, text)
    \/ Extract
    \/ \E f \in FileOutcomes : NodeStore(f)
    \/ \E f \in FileOutcomes : Finalize(f)

Init == WfInit /\ ParseIdle /\ ExtIdle

Next ==
    \/ \E u \in Urls, m \in ModelNames, s \in BOOLEAN, k \in BOOLEAN : Call(u, m, s, k)
    \/ RunStep

Spec == Init /\ [][Next]_vars

\* A call that has been made runs to its end: asyncio runs the coroutine
\* until it returns, and every request it awaits is answered or fails.
FairSpec == Spec /\ WF_vars(RunStep)

(***************************************************************************)
(* Text.  A Python str is a string; its characters are the strings of      *)
(* length one that SubSeq cuts out of it.                                  *)
(***************************************************************************)
\* s[i-1:j] of Python, for positions counted from 1
Slice(s, i, j) ==
    IF i > j \/ i > Len(s) \/ j < 1 THEN ""
    ELSE SubSeq(s, IF i < 1 THEN 1 ELSE i, IF j > Len(s) THEN Len(s) ELSE j)

Char(s, i) == Slice(s, i, i)

Digits == {"0", "1", "2", "3", "4", "5", "6", "7", "8", "9"}

DigitValue ==
    ("0" :> 0) @@ ("1" :> 1) @@ ("2" :> 2) @@ ("3" :> 3) @@ ("4" :> 4) @@
    ("5" :> 5) @@ ("6" :> 6) @@ ("7" :> 7) @@ ("8" :> 8) @@ ("9" :> 9)

UpperToLower ==
    ("A" :> "a") @@ ("B" :> "b") @@ ("C" :> "c") @@ ("D" :> "d") @@
    ("E" :> "e") @@ ("F" :> "f") @@ ("G" :> "g") @@ ("H" :> "h") @@
    ("I" :> "i") @@ ("J" :> "j") @@ ("K" :> "k") @@ ("L" :> "l") @@
    ("M" :> "m") @@ ("N" :> "n") @@ ("O" :> "o") @@ ("P" :> "p") @@
    ("Q" :> "q") @@ ("R" :> "r") @@ ("S" :> "s") @@ ("T" :> "t") @@
    ("U" :> "u") @@ ("V" :> "v") @@ ("W" :> "w") @@ ("X" :> "x") @@
    ("Y" :> "y") @@ ("Z" :> "z")

Whitespace == {" ", "\t", "\n", "\r"}

\* s.find(sub) + 1: the position of the first occurrence of sub, or 0
IndexOf(s, sub) ==
    LET hits == {i \in 1..(Len(s) - Len(sub) + 1) :
                    Slice(s, i, i + Len(sub) - 1) = sub}
    IN  IF hits = {} THEN 0 ELSE Min(hits)

\* sub in s
Contains(s, sub) == IndexOf(s, sub) > 0

\* s.startswith(prefix)
StartsWith(s, prefix) ==
    Len(s) >= Len(prefix) /\ Slice(s, 1, Len(prefix)) = prefix

RECURSIVE LStrip(_)
LStrip(s) ==
    IF s # "" /\ Char(s, 1) \in Whitespace
    THEN LStrip(Slice(s, 2, Len(s))) ELSE s

RECURSIVE RStrip(_)
RStrip(s) ==
    IF s # "" /\ Char(s, Len(s)) \in Whitespace
    THEN RStrip(Slice(s, 1, Len(s) - 1)) ELSE s

\* s.strip()
Strip(s) == LStrip(RStrip(s))

\* s.lower()
RECURSIVE Lower(_)
Lower(s) ==
    IF s = "" THEN ""
    ELSE (IF Char(s, 1) \in DOMAIN UpperToLower
          THEN UpperToLower[Char(s, 1)] ELSE Char(s, 1))
         \o Lower(Slice(s, 2, Len(s)))

\* s.capitalize()
Capitalize(s) ==
    IF s = "" THEN ""
    ELSE LET c == Char(s, 1)
             ups == {u \in DOMAIN UpperToLower : UpperToLower[u] = c}
         IN  (IF ups = {} THEN c ELSE CHOOSE u \in ups : TRUE)
             \o Lower(Slice(s, 2, Len(s)))

\* The position of the first character of s that is in chars, or 0
IndexOfAny(s, chars) ==
    LET hits == {i \in 1..Len(s) : Char(s, i) \in chars}
    IN  IF hits = {} THEN 0 ELSE Min(hits)

\* re.split(r'[...]', s) for a class of characters; s.split(c) for one
RECURSIVE SplitAny(_, _)
SplitAny(s, chars) ==
    LET i == IndexOfAny(s, chars) IN
    IF i = 0 THEN <<s>>
    ELSE <<Slice(s, 1, i - 1)>> \o SplitAny(Slice(s, i + 1, Len(s)), chars)

\* s.split(c, 1)
SplitFirst(s, c) ==
    LET i == IndexOfAny(s, {c}) IN
    IF i = 0 THEN <<s>>
    ELSE <<Slice(s, 1, i - 1), Slice(s, i + 1, Len(s))>>

\* sep.join(parts)
RECURSIVE Join(_, _)
Join(parts, sep) ==
    IF parts = <<>> THEN ""
    ELSE IF Len(parts) = 1 THEN parts[1]
    ELSE parts[1] \o sep \o Join(Tail(parts), sep)

\* The end of the run of digits of s that starts at i (i - 1 if s has no
\* digit at i): what a greedy \d+ consumes.
DigitRunEnd(s, i) ==
    LET others == {j \in i..Len(s) : Char(s, j) \notin Digits}
    IN  IF others = {} THEN Len(s) ELSE Min(others) - 1

\* int(ds) for a string of digits
RECURSIVE ToInt(_)
ToInt(ds) ==
    IF ds = "" THEN 0
    ELSE ToInt(Slice(ds, 1, Len(ds) - 1)) * 10 + DigitValue[Char(ds, Len(ds))]

RECURSIVE Pow10(_)
Pow10(n) == IF n = 0 THEN 1 ELSE 10 * Pow10(n - 1)

(***************************************************************************)
(* VideoEnhancementAgent._extract_timestamps (agents/analysis_agent.py).   *)
(* A number of seconds is the fraction num/den with den a power of ten and *)
(* no common factor ten, so that 330 and 330.0 are the same value.         *)
(***************************************************************************)
RECURSIVE Normal(_, _)
Normal(num, den) ==
    IF den > 1 /\ num % 10 = 0 THEN Normal(num \div 10, den \div 10)
    ELSE [num |-> num, den |-> den]

Seconds(n) == [num |-> n, den |-> 1]

\* a + n for an integer n;  a > b;  not a
SecPlus(a, n) == [num |-> a.num + n * a.den, den |-> a.den]
SecGreater(a, b) == a.num * b.den > b.num * a.den
SecIsZero(a) == a.num = 0

\* timestamp_patterns, lines 123-130.  "D" stands for \d+, every other
\* element for itself.
timestamp_patterns ==
    << <<"D", ":", "D", ":", "D">>,     \* (\d+):(\d+):(\d+)
       <<"D", ":", "D">>,               \* (\d+):(\d+)
       <<"D", "m", "D", "s">>,          \* (\d+)m(\d+)s
       <<"D", "m">>,                    \* (\d+)m
       <<"D", "s">>,                    \* (\d+)s
       <<"D", ".", "D">> >>             \* (\d+\.\d+)

\* The pattern from its element k on, matched against s at position i.
\* No literal of the patterns is a digit, so the greedy \d+ never has to
\* give a digit back.
RECURSIVE MatchAt(_, _, _, _)
MatchAt(pat, k, s, i) ==
    IF k > Len(pat) THEN [ok |-> TRUE, groups |-> <<>>]
    ELSE IF pat[k] = "D"
    THEN LET e == DigitRunEnd(s, i)
             rest == MatchAt(pat, k + 1, s, e + 1)
         IN  IF e >= i /\ rest.ok
             THEN [ok |-> TRUE, groups |-> <<Slice(s, i, e)>> \o rest.groups]
             ELSE [ok |-> FALSE, groups |-> <<>>]
    ELSE IF i <= Len(s) /\ Char(s, i) = pat[k]
    THEN MatchAt(pat, k + 1, s, i + 1)
    ELSE [ok |-> FALSE, groups |-> <<>>]

\* re.findall(pattern, value): the digit runs of matches[0], or None when
\* there is no match
FindFirst(pat, value) ==
    LET starts == {i \in 1..Len(value) : MatchAt(pat, 1, value, i).ok}
    IN  IF starts = {} THEN None
        ELSE Some(MatchAt(pat, 1, value, Min(starts)).groups)

\* Lines 145-159: the seconds of the groups g matched by pattern number k
to_seconds(k, g) ==
    CASE k = 1 -> Seconds(ToInt(g[1]) * 3600 + ToInt(g[2]) * 60 + ToInt(g[3]))
      [] k = 2 -> Seconds(ToInt(g[1]) * 60 + ToInt(g[2]))
      [] k = 3 -> Seconds(ToInt(g[1]) * 60 + ToInt(g[2]))
      [] k = 4 -> Seconds(ToInt(g[1]) * 60)
      [] k = 5 -> Seconds(ToInt(g[1]))
      [] k = 6 -> Normal(ToInt(g[1] \o g[2]), Pow10(Len(g[2])))

\* A variant of the loop below that takes the last pattern that matches.
value_seconds_last(value) ==
    LET ks == {k \in 1..Len(timestamp_patterns) :
                  IsSome(FindFirst(timestamp_patterns[k], value))}
    IN  IF ks = {} THEN None
        ELSE Some(to_seconds(Max(ks), Val(FindFirst(timestamp_patterns[Max(ks)], value))))

\* Lines 141-162: the patterns are tried in order and the first that
\* matches converts the value; None when no pattern matches.
value_seconds(value) ==
    LET ks == {k \in 1..Len(timestamp_patterns) :
                  IsSome(FindFirst(timestamp_patterns[k], value))}
    IN  IF ks = {} THEN None
        ELSE Some(to_seconds(Min(ks), Val(FindFirst(timestamp_patterns[Min(ks)], value))))

\* Lines 135-162 over the lines of the text: times[key] = seconds
RECURSIVE TimesOfLines(_, _)
TimesOfLines(lines, times) ==
    IF lines = <<>> THEN times
    ELSE LET parts == SplitFirst(lines[1], ":")
             key == Strip(parts[1])
             found == IF Len(parts) = 2 THEN value_seconds(Strip(parts[2])) ELSE None
         IN  TimesOfLines(Tail(lines),
                          IF IsSome(found) THEN (key :> Val(found)) @@ times
                          ELSE times)

\* VideoEnhancementAgent._extract_timestamps
extract_timestamps(text) ==
    TimesOfLines(SplitAny(text, {"\n"}), EmptyDict)

(***************************************************************************)
(* _extract_timestamps applied to one `label: value` line, for every       *)
(* value of at most MaxTimeLen characters and the values below.            *)
(***************************************************************************)
MaxTimeLen == 4

TimeAlphabet == {"0", "5", ":", "m", "s", ".", "x"}

TimeExamples ==
    {"1:02:03", "5:30", "5m30s", "5m", "45s", "1.50", "45", "about 5m30s in",
     "from 90s to 1:30", "0:07:00.5", "12:5m", "no time given"}

TimeTexts ==
    {Join(q, "") : q \in UNION {[1..n -> TimeAlphabet] : n \in 0..MaxTimeLen}}
    \cup TimeExamples

TimeLabel == "t"

FallbackIdle ==
    /\ ftext = <<>>
    /\ finput = None
    /\ flocals = None
    /\ fresults = <<>>

TimeInit ==
    /\ WfInit
    /\ LateIdle
    /\ ParseIdle
    /\ FallbackIdle
    /\ tvalue \in TimeTexts
    /\ tphase = "input"
    /\ tresult = EmptyDict

ExtractTimestamps ==
    /\ tphase = "input"
    /\ tresult' = extract_timestamps(TimeLabel \o ": " \o tvalue)
    /\ tphase' = "done"
    /\ UNCHANGED <<tvalue, wfVars, parseVars, fbVars, lateVars>>

TimeNext == ExtractTimestamps

SpecTime == TimeInit /\ [][TimeNext]_vars

(***************************************************************************)
(* VideoEnhancementAgent.fallback_parsing (agents/analysis_agent.py).      *)
(* raw_text is the sequence of its lines; the bullet and list markers of   *)
(* the texts are "-" and "*".                                              *)
(***************************************************************************)
SectionWords == {"topics:", "sentiment:", "audience:", "key points:", "summary:"}

BulletMarks == {"-", "*"}

\* Line 192: the line is a section header
IsHeader(line) ==
    \/ StartsWith(Strip(line), "#")
    \/ \E x \in SectionWords : Contains(Lower(line), x)

\* re.sub(r'^#+\s*', '', s)
RECURSIVE StripHashes(_)
StripHashes(s) ==
    IF StartsWith(s, "#") THEN StripHashes(Slice(s, 2, Len(s))) ELSE s

\* Lines 193-196: the name of the section a header line opens
SectionName(line) ==
    LET low == Lower(Strip(line))
        nohash == IF StartsWith(low, "#") THEN LStrip(StripHashes(low)) ELSE low
    IN  IF nohash # "" /\ Char(nohash, Len(nohash)) = ":"
        THEN Slice(nohash, 1, Len(nohash) - 1) ELSE nohash

\* Lines 186-199: the sections of the text.  names holds the keys of the
\* dict in insertion order, content its values, current is
\* current_section ("" while it is None or empty, both falsy).
RECURSIVE SectionsOf(_, _)
SectionsOf(lines, acc) ==
    IF lines = <<>> THEN acc
    ELSE LET line == Head(lines)
             name == SectionName(line)
         IN  IF IsHeader(line)
             THEN SectionsOf(Tail(lines),
                    [names |-> IF \E i \in 1..Len(acc.names) : acc.names[i] = name
                               THEN acc.names ELSE Append(acc.names, name),
                     content |-> (name :> <<>>) @@ acc.content,
                     current |-> name])
             ELSE IF acc.current # "" /\ Strip(line) # ""
             THEN SectionsOf(Tail(lines),
                    [acc EXCEPT !.content[acc.current] = Append(@, Strip(line))])
             ELSE SectionsOf(Tail(lines), acc)

NoSections == [names |-> <<>>, content |-> EmptyDict, current |-> ""]

\* line.startswith(('-', '*'))
IsBullet(line) == line # "" /\ Char(line, 1) \in BulletMarks

\* [re.sub(r'^[-*]\s*', '', line) for line in content if line.startswith(('-', '*'))]
BulletItems(content) ==
    LET items == SelectSeq(content, IsBullet)
    IN  [i \in 1..Len(items) |-> LStrip(Slice(items[i], 2, Len(items[i])))]

\* [t.strip() for t in re.split(r'[,;]', line) if t.strip()]
SeparatedItems(line) ==
    LET parts == SplitAny(line, {",", ";"})
        kept == SelectSeq(parts, LAMBDA t : Strip(t) # "")
    IN  [i \in 1..Len(kept) |-> Strip(kept[i])]

\* Lines 213-215: every line with a separator assigns main_topics anew
RECURSIVE SeparatedTopics(_, _)
SeparatedTopics(content, main_topics) ==
    IF content = <<>> THEN main_topics
    ELSE SeparatedTopics(Tail(content),
            IF Contains(Head(content), ",") \/ Contains(Head(content), ";")
            THEN SeparatedItems(Head(content)) ELSE main_topics)

sentiment_keywords == <<"positive", "negative", "neutral", "mixed", "controversial">>

level_keywords ==
    <<"beginner", "intermediate", "advanced", "technical", "academic", "professional">>

\* for keyword in keywords: if keyword in text.lower(): ... break
FirstKeyword(keywords, text, default) ==
    LET ks == {k \in 1..Len(keywords) : Contains(Lower(text), keywords[k])}
    IN  IF ks = {} THEN default ELSE Capitalize(keywords[Min(ks)])

\* Lines 248-259: the end time of the segment of topic
segment_end(topic, main_topics, timestamps, transcript) ==
    LET start == timestamps[Lower(topic)]
        later == {i \in 1..Len(main_topics) :
                     /\ main_topics[i] # topic
                     /\ Lower(main_topics[i]) \in DOMAIN timestamps
                     /\ SecGreater(timestamps[Lower(main_topics[i])], start)}
        \* the smallest of the later start times, None when there is none
        next == IF later = {} THEN None
                ELSE Some(timestamps[Lower(main_topics[
                        CHOOSE i \in later : \A j \in later :
                            ~SecGreater(timestamps[Lower(main_topics[i])],
                                        timestamps[Lower(main_topics[j])])])])
        last_entry == transcript[Len(transcript)]
    IN  IF (next = None \/ SecIsZero(Val(next))) /\ Len(transcript) > 0
        THEN Seconds(last_entry.start + Get(last_entry, "duration", 0))
        ELSE SecPlus(start, 300)

\* Lines 244-266: the segments one section adds, one for every topic of
\* main_topics that is a key of the section's timestamps
section_segments(main_topics, timestamps, transcript) ==
    LET timed == SelectSeq(main_topics, LAMBDA t : Lower(t) \in DOMAIN timestamps)
    IN  [i \in 1..Len(timed) |->
            [topic |-> timed[i],
             start_time |-> timestamps[Lower(timed[i])],
             end_time |-> segment_end(timed[i], main_topics, timestamps, transcript),
             key_points |-> <<>>]]

\* Lines 203-266: the body of the loop over the sections, on the locals L
process_section(section, content, L, input_data) ==
    LET content_text == Join(content, " ")
        topics == BulletItems(content)
        main_topics ==
            IF Contains(section, "topic") \/ Contains(section, "main")
            THEN (IF topics # <<>> THEN topics
                  ELSE SeparatedTopics(content, L.main_topics))
            ELSE L.main_topics
        points == BulletItems(content)
    IN  [L EXCEPT
           !.main_topics = main_topics,
           !.sentiment =
               IF Contains(section, "sentiment") \/ Contains(section, "tone")
               THEN FirstKeyword(sentiment_keywords, content_text, @) ELSE @,
           !.language_level =
               IF Contains(section, "language") \/ Contains(section, "education")
               THEN FirstKeyword(level_keywords, content_text, @) ELSE @,
           !.key_points =
               IF (Contains(section, "key point") \/ Contains(section, "main point"))
                  /\ points # <<>>
               THEN points ELSE @,
           !.summary = IF Contains(section, "summary") THEN content_text ELSE @,
           !.topic_segments =
               @ \o section_segments(main_topics, extract_timestamps(content_text),
                                     input_data.transcript)]

\* Lines 202-266: the loop over sections.items().  L1, the locals after the
\* first section, is bound to its value before the loop goes on.
RECURSIVE process_sections(_, _, _, _)
process_sections(names, content, L, input_data) ==
    IF names = <<>> THEN L
    ELSE CHOOSE end \in
            {process_sections(Tail(names), content, L1, input_data) :
                L1 \in {process_section(Head(names), content[Head(names)], L,
                                        input_data)}} : TRUE

\* re.sub(r'^\d+\.|-|\*\s*', '', line): a leading number with its dot and
\* every "-" and "*" are removed
RemoveMarks(line) ==
    LET e == DigitRunEnd(line, 1)
        rest == IF e >= 1 /\ Char(line, e + 1) = "." 
                THEN Slice(line, e + 2, Len(line)) ELSE line
    IN  Join(SplitAny(rest, BulletMarks), "")

\* re.match(r'^\d+\.', line) or line.startswith(('-', '*'))
IsListLine(line) ==
    \/ DigitRunEnd(line, 1) >= 1 /\ Char(line, DigitRunEnd(line, 1) + 1) = "."
    \/ IsBullet(line)

\* Lines 269-275: topics taken from the list lines of the whole text
listed_topics(lines) ==
    LET cleaned == [i \in 1..Len(lines) |-> Strip(RemoveMarks(lines[i]))]
        kept == {i \in 1..Len(lines) :
                    IsListLine(lines[i]) /\ Len(cleaned[i]) > 3 /\ Len(cleaned[i]) < 100}
        Nth(n) == CHOOSE i \in kept : Cardinality({j \in kept : j <= i}) = n
    IN  [n \in 1..Cardinality(kept) |-> cleaned[Nth(n)]]

NoSummary == "Analysis failed. Summary could not be extracted."

\* Line 281
placeholder_summary(input_data) ==
    "This video titled '" \o input_data.title \o "' by " \o input_data.channel
    \o " covers various topics that could not be automatically extracted."
    \o " A manual review is recommended."

\* A call that goes on with the lists and values the previous call on the
\* agent ended with.
fallback_locals_kept(prev) ==
    IF prev = None
    THEN [main_topics |-> <<>>, topic_segments |-> <<>>, key_points |-> <<>>,
          sentiment |-> "Unknown", target_audience |-> <<"General audience">>,
          language_level |-> "Unknown", content_quality |-> 5,
          engagement_hooks |-> <<>>, summary |-> NoSummary,
          educational_value |-> None, content_warnings |-> <<>>,
          related_topics |-> <<>>]
    ELSE Val(prev)

\* Lines 172-183: the locals a call starts with, whatever the previous
\* call on the agent (prev) ended with
fallback_locals(prev) ==
    [main_topics |-> <<>>, topic_segments |-> <<>>, key_points |-> <<>>,
     sentiment |-> "Unknown", target_audience |-> <<"General audience">>,
     language_level |-> "Unknown", content_quality |-> 5,
     engagement_hooks |-> <<>>, summary |-> NoSummary,
     educational_value |-> None, content_warnings |-> <<>>,
     related_topics |-> <<>>]

\* Lines 186-281: the locals at the end of the call: sections after lines
\* 186-199, L1 after the loop of lines 202-266, L2 after lines 269-275, and
\* the result after lines 278-281, each bound to its value once
fallback_end_locals(L0, lines, input_data) ==
    CHOOSE end \in
        {IF L2.summary = NoSummary
         THEN [L2 EXCEPT !.summary = placeholder_summary(input_data)] ELSE L2 :
            L2 \in {IF L1.main_topics = <<>>
                    THEN [L1 EXCEPT !.main_topics = listed_topics(lines)] ELSE L1 :
                L1 \in {process_sections(sections.names, sections.content, L0,
                                         input_data) :
                    sections \in {SectionsOf(lines, NoSections)}}}} : TRUE

\* A slice that keeps the whole list.
Take_all(seq, n) == seq

\* seq[:n]
Take(seq, n) == SubSeq(seq, 1, IF Len(seq) < n THEN Len(seq) ELSE n)

\* Lines 284-298: the record built from the locals
fallback_record(L, input_data) ==
    [original_data |-> input_data,
     main_topics |-> IF L.main_topics # <<>> THEN Take(L.main_topics, 7)
                     ELSE <<"Topic extraction failed">>,
     topic_segments |-> L.topic_segments,
     key_points |-> IF L.key_points # <<>> THEN Take(L.key_points, 8)
                    ELSE <<"Key points extraction failed">>,
     sentiment |-> L.sentiment,
     target_audience |-> L.target_audience,
     language_level |-> L.language_level,
     content_quality |-> L.content_quality,
     engagement_hooks |-> L.engagement_hooks,
     summary |-> L.summary,
     educational_value |-> L.educational_value,
     content_warnings |-> L.content_warnings,
     related_topics |-> L.related_topics]

\* VideoEnhancementAgent.fallback_parsing
enh_fallback_parsing(lines, input_data) ==
    fallback_record(fallback_end_locals(fallback_locals(None), lines, input_data),
                    input_data)

(***************************************************************************)
(* The analysis record of the enhancement agent (agents/analysis_agent.py) *)
(* and BaseAgent's strict decoding.                                        *)
(***************************************************************************)
\* YouTubeVideoData, lines 7-18: the fields without a default
EnhVideoRequired ==
    {"video_id", "title", "description", "channel", "published_at",
     "transcript", "duration", "view_count"}

\* VideoAnalysisData, lines 26-39: the fields without a default
EnhRequired ==
    {"original_data", "main_topics", "topic_segments", "key_points", "sentiment",
     "target_audience", "language_level", "content_quality", "summary"}

\* VideoAnalysisData, lines 35-39: the defaults of the other fields
EnhDefaults ==
    [engagement_hooks |-> <<>>,
     educational_value |-> None,
     content_warnings |-> <<>>,
     related_topics |-> <<>>]

\* TopicSegment, lines 20-24: the fields without a default
SegmentRequired == {"topic", "start_time", "end_time"}

\* VideoAnalysisData(**structured_data): ok is FALSE where pydantic raises
\* ValidationError.  Keys that are no fields are ignored.
EnhVideoAnalysisData(map) ==
    IF /\ EnhRequired \subseteq DOMAIN map
       /\ EnhVideoRequired \subseteq DOMAIN map["original_data"]
       /\ map["content_quality"] \in 1..10
       /\ \A i \in 1..Len(map["topic_segments"]) :
              SegmentRequired \subseteq DOMAIN map["topic_segments"][i]
    THEN [ok |-> TRUE,
          rec |-> [f \in EnhRequired \cup DOMAIN EnhDefaults |->
                      IF f \in DOMAIN map THEN map[f] ELSE EnhDefaults[f]]]
    ELSE [ok |-> FALSE, rec |-> EmptyDict]

\* The characters of a model output, one line for each of its parts.  A
\* member is written as "key": "value" when its value is a text and as
\* "key": [] otherwise; no part has a line break.  The three characters
\* of a fence are written as quotes.
RenderToken(tok) ==
    CASE tok.t = "lb" -> "{"
      [] tok.t = "rb" -> "}"
      [] tok.t = "fo" -> "'''json"
      [] tok.t = "fc" -> "'''"
      [] tok.t = "w" -> "prose"
      [] tok.t = "num" -> "5"
      [] tok.t = "kv" ->
            "\"" \o tok.k \o "\": "
            \o (IF tok.k \in {"summary", "sentiment", "language_level"}
                THEN "\"" \o tok.v \o "\"" ELSE "[]")

RenderLines(toks) ==
    IF toks = <<>> THEN <<"">> ELSE [i \in 1..Len(toks) |-> RenderToken(toks[i])]

\* BaseAgent.parse_structured_output on result["response"], for the
\* enhancement agent whose input_data is given.  json.loads raising goes
\* to fallback_parsing; a decoded value that is no mapping (TypeError) or
\* fails validation (ValidationError) is not caught here.
parse_structured_output(input_data, toks) ==
    LET d == json_loads(toks) IN
    IF ~d.ok
    THEN [path |-> "fallback",
          rec |-> enh_fallback_parsing(RenderLines(toks), input_data)]
    ELSE IF ~d.isdict THEN [path |-> "raised"]
    ELSE IF EnhVideoAnalysisData(d.map).ok
    THEN [path |-> "strict", rec |-> EnhVideoAnalysisData(d.map).rec]
    ELSE [path |-> "raised"]

\* VideoEnhancementAgent.run and BaseAgent.run around the parse.  callOutcome
\* is what call_ollama did.  An error that leaves the parse is caught by
\* BaseAgent.run, whose result_model() raises for the missing fields, and
\* then by VideoEnhancementAgent.run, which returns fallback_parsing("").
enh_run(input_data, callOutcome, toks) ==
    LET r == parse_structured_output(input_data, toks) IN
    IF callOutcome # "ok" \/ r.path = "raised"
    THEN [path |-> "default", rec |-> enh_fallback_parsing(<<"">>, input_data)]
    ELSE r

(***************************************************************************)
(* The texts the decoders are applied to: every text of at most            *)
(* MaxTextLen tokens, the model outputs of the workflow, and encodings of  *)
(* analysis records, bare, fenced and inside prose.                        *)
(***************************************************************************)
Alphabet == {LB, RB, FO, FC, W, NUM, SummaryX}

ShortTexts == UNION {[1..n -> Alphabet] : n \in 0..MaxTextLen}

\* The video record the decoders are run for (the agent's input_data).
SampleVideo ==
    VideoDataMinimal(IdA, process_transcript(ApiTranscript))

SampleEnhVideo ==
    [video_id |-> IdA, title |-> "t", description |-> "d", channel |-> "c",
     published_at |-> "2024-01-01", transcript |-> ApiTranscript, duration |-> 9,
     view_count |-> 7, like_count |-> None, comment_count |-> None, tags |-> <<>>]

SampleMentions == {<<>>, <<[name |-> "n", description |-> "d"]>>}

\* Analysis records of the node workflow
InsRecords ==
    {[VideoAnalysisDefaults(SampleVideo) EXCEPT
        !.summary = "x", !.main_topics = mt, !.key_points = <<"b">>,
        !.software_mentions = sm, !.sentiment = se, !.content_quality = q] :
        mt \in {<<>>, <<"a">>}, sm \in SampleMentions,
        se \in {"unknown", "positive"}, q \in {5, 9}}

\* Analysis records of the enhancement agent
EnhRecords ==
    {[original_data |-> SampleEnhVideo, main_topics |-> <<"a">>,
      topic_segments |-> <<>>, key_points |-> <<"b">>, sentiment |-> se,
      target_audience |-> <<"General audience">>, language_level |-> "Beginner",
      content_quality |-> q, engagement_hooks |-> <<>>, summary |-> "x",
      educational_value |-> None, content_warnings |-> <<>>,
      related_topics |-> rt] :
        se \in {"Unknown", "Positive"}, q \in {1, 10}, rt \in {<<>>, <<"r">>}}

\* The order in which a record's fields are written
FieldOrder ==
    <<"original_data", "main_topics", "topic_segments", "key_points", "sentiment",
      "target_audience", "language_level", "content_quality", "engagement_hooks",
      "summary", "educational_value", "content_warnings", "related_topics",
      "software_mentions">>

RECURSIVE EncodeFields(_, _)
EncodeFields(r, i) ==
    IF i > Len(FieldOrder) THEN <<>>
    ELSE (IF FieldOrder[i] \in DOMAIN r
          THEN <<KV(FieldOrder[i], r[FieldOrder[i]])>> ELSE <<>>)
         \o EncodeFields(r, i + 1)

\* json.dumps(record.model_dump()): one member per field, in braces
Encode(r) == <<LB>> \o EncodeFields(r, 1) \o <<RB>>

\* An analysis record of the enhancement agent with every field valid
SampleEnhRecord ==
    [original_data |-> SampleEnhVideo, main_topics |-> <<"a">>,
     topic_segments |-> <<[topic |-> "a", start_time |-> 0, end_time |-> 9,
                           key_points |-> <<>>]>>,
     key_points |-> <<"b">>, sentiment |-> "Positive",
     target_audience |-> <<"General audience">>, language_level |-> "Beginner",
     content_quality |-> 7, engagement_hooks |-> <<"h">>, summary |-> "x",
     educational_value |-> None, content_warnings |-> <<>>,
     related_topics |-> <<"r">>]

\* Without(r, f): the mapping r without the key f
Without(r, f) == [g \in DOMAIN r \ {f} |-> r[g]]

\* Decoded model outputs in which one field is out of range, of the wrong
\* shape or absent, and every other field is valid
OneFieldOff ==
    {[SampleEnhRecord EXCEPT !.content_quality = 15],
     [SampleEnhRecord EXCEPT !.content_quality = 0],
     [SampleEnhRecord EXCEPT !.topic_segments = <<[topic |-> "a"]>>],
     Without(SampleEnhRecord, "sentiment"),
     Without(SampleEnhRecord, "summary"),
     Without(SampleEnhRecord, "related_topics")}

Encodings ==
    {Encode(r) : r \in InsRecords \cup EnhRecords \cup {SampleEnhRecord}
                      \cup OneFieldOff}

ParseTexts ==
    ShortTexts \cup ModelTexts \cup Encodings
    \cup {<<FO>> \o e \o <<FC>> : e \in Encodings}
    \cup {<<W>> \o e \o <<W>> : e \in Encodings}

ParseInit ==
    /\ WfInit
    /\ ExtIdle
    /\ ptext \in ParseTexts
    /\ pphase = "input"
    /\ presult = [path |-> "none"]

\* TranscriptInsightsAgent.run, lines 112-133, applied to the text
InsightsParse ==
    /\ pphase = "input"
    /\ presult' = insights_extract(SampleVideo, ptext)
    /\ pphase' = "insights"
    /\ UNCHANGED <<ptext, wfVars, extVars>>

\* BaseAgent.parse_structured_output applied to the text
BaseParse ==
    /\ pphase = "input"
    /\ presult' = parse_structured_output(SampleEnhVideo, ptext)
    /\ pphase' = "base"
    /\ UNCHANGED <<ptext, wfVars, extVars>>

\* VideoEnhancementAgent.run applied to the text call_ollama returned, or
\* to its failure
EnhRun(o) ==
    /\ pphase = "input"
    /\ presult' = enh_run(SampleEnhVideo, o, ptext)
    /\ pphase' = "enh_" \o o
    /\ UNCHANGED <<ptext, wfVars, extVars>>

ParseNext ==
    \/ InsightsParse
    \/ BaseParse
    \/ \E o \in {"ok", "raises"} : EnhRun(o)

SpecParse == ParseInit /\ [][ParseNext]_vars

(***************************************************************************)
(* fallback_parsing applied to texts: every text of at most                *)
(* MaxFallbackLines lines of FallbackLines and the texts of                *)
(* FallbackExamples, for a video without transcript, one with a transcript *)
(* that ends at 9 s and one with a transcript that ends at 600 s; and the  *)
(* fallback of the insights agent applied to the model outputs.            *)
(***************************************************************************)
MaxFallbackLines == 3

MaxFallbackCalls == 2

FallbackLines ==
    {"## Topics", "intro, Setup", "# times", "intro: 5:30", "setup: 1:00",
     "## Summary", "a short video", "- first steps"}

FallbackExamples ==
    { <<"## Main topics", "- t1", "- t2", "- t3", "- t4", "- t5", "- t6", "- t7",
        "- t8", "## Key points", "* k1", "* k2", "* k3", "* k4", "* k5", "* k6",
        "* k7", "* k8", "* k9">>,
      <<"Topics:", "intro; setup; outro", "# part one", "intro: 1:00",
        "# part two", "setup: 5:30", "# part three", "outro: 12m">>,
      <<"Topics:", "intro, setup", "# second", "setup: 5:30", "# first",
        "intro: 1:00">>,
      <<"Topics:", "intro, setup", "# times", "intro: 1:00", "setup: 5:30">>,
      <<"Topics:", "intro, setup", "# first", "intro: 1:00", "# second",
        "intro: 5:30">>,
      <<"## Topics", "intro, intro", "# times", "intro: 5:30">>,
      <<"Topics:", "Intro, Setup", "# times", "Intro: 1:00">>,
      <<"Topics:", "intro, outro", "# times", "intro: 1.50", "Tone:", "# tone",
        "rather Negative", "# language", "for Beginners">>,
      <<"1. first steps", "2. abc", "- second-topic", "summary:", "good video",
        "more of it">>,
      <<"Summary:", "", "## Topics", "- intro">>,
      <<"{\"summary\": \"x\"">>,
      <<"Key points:", "", "Sentiment: mixed", "Setup: 0:45">>,
      <<"#", "lost line", "topics: a, b", "c; d", ",">> }

FallbackTexts ==
    UNION {[1..n -> FallbackLines] : n \in 1..MaxFallbackLines}
    \cup FallbackExamples

LongTranscript == <<[text |-> "all of it", start |-> 0, duration |-> 590],
                    [text |-> "bye", start |-> 600]>>

FallbackVideos ==
    {[SampleEnhVideo EXCEPT !.transcript = tr] :
        tr \in {<<>>, ApiTranscript, LongTranscript}}

FallbackInit ==
    /\ WfInit
    /\ LateIdle
    /\ tvalue = ""
    /\ tphase = "off"
    /\ tresult = EmptyDict
    /\ presult = [path |-> "none"]
    /\ flocals = None
    /\ fresults = <<>>
    /\ \/ /\ ftext \in FallbackTexts
          /\ finput \in {Some(v) : v \in FallbackVideos}
          /\ ptext = <<>>
          /\ pphase = "off"
       \/ /\ ftext = <<>>
          /\ finput = Some(SampleVideo)
          /\ ptext \in ModelTexts
          /\ pphase = "fallback_input"

\* VideoEnhancementAgent.fallback_parsing(raw_text) on the agent whose
\* input_data is finput
EnhFallback ==
    /\ pphase = "off"
    /\ IsSome(finput)
    /\ Len(fresults) < MaxFallbackCalls
    /\ LET L == fallback_end_locals(fallback_locals(flocals), ftext, Val(finput))
       IN  /\ flocals' = Some(L)
           /\ fresults' = Append(fresults, fallback_record(L, Val(finput)))
    /\ UNCHANGED <<ftext, finput, wfVars, parseVars, tsVars, lateVars>>

\* TranscriptInsightsAgent.fallback_parsing(raw_text) on the agent whose
\* input_data is finput
InsFallback ==
    /\ pphase = "fallback_input"
    /\ Len(fresults) < MaxFallbackCalls
    /\ fresults' = Append(fresults, insights_fallback_parsing(ptext, Val(finput)))
    /\ UNCHANGED <<ftext, finput, flocals, wfVars, parseVars, tsVars, lateVars>>

FallbackNext == EnhFallback \/ InsFallback

SpecFallback == FallbackInit /\ [][FallbackNext]_vars

(***************************************************************************)
(* YouTubeTranscriptAgent._parse_duration and the isodate.parse_duration   *)
(* it calls.  The library parses the designator form                       *)
(*   P [nY] [nM] [nW] [nD] [ T [nH] [nM] [nS] ]                            *)
(* with every group optional, and raises ISO8601Error, a ValueError, for a *)
(* string it cannot parse.  Fractions, signs and the alternative           *)
(* PYYYY-MM-DDThh:mm:ss form need characters, or more characters, than the *)
(* strings below have.                                                     *)
(***************************************************************************)
\* The groups [n unit] of units, in order, from position i of s: the number
\* of each group (None for a group that is absent) and the position after
\* the last one.
RECURSIVE IsoGroups(_, _, _, _)
IsoGroups(s, i, units, acc) ==
    IF units = <<>> THEN [n |-> acc, next |-> i]
    ELSE LET e == DigitRunEnd(s, i)
             here == e >= i /\ Char(s, e + 1) = Head(units)
         IN  IsoGroups(s, IF here THEN e + 2 ELSE i, Tail(units),
                       Append(acc, IF here THEN Some(ToInt(Slice(s, i, e)))
                                   ELSE None))

\* isodate.parse_duration(datestring) for a string: the timedelta, or the
\* Duration when years or months are given, or the exception raised.
isodate_parse_duration(s) ==
    LET date == IsoGroups(s, 2, <<"Y", "M", "W", "D">>, <<>>)
        hasT == Char(s, date.next) = "T"
        time == IF hasT THEN IsoGroups(s, date.next + 1, <<"H", "M", "S">>, <<>>)
                ELSE [n |-> <<None, None, None>>, next |-> date.next]
        N(o) == IF o = None THEN 0 ELSE Val(o)
    IN  IF Char(s, 1) = "P" /\ Len(s) >= 2 /\ time.next = Len(s) + 1
        THEN [raised |-> None,
              years |-> N(date.n[1]), months |-> N(date.n[2]),
              tdelta |-> N(date.n[3]) * 604800 + N(date.n[4]) * 86400
                         + N(time.n[1]) * 3600 + N(time.n[2]) * 60 + N(time.n[3])]
        ELSE [raised |-> Some("ISO8601Error")]

\* The exception classes `except (ValueError, AttributeError)` catches;
\* isodate's ISO8601Error is a subclass of ValueError.
CaughtByParseDuration == {"ValueError", "ISO8601Error", "AttributeError"}

\* A _parse_duration without the except clause.
parse_duration_uncaught(duration_str) ==
    LET duration == isodate_parse_duration(duration_str)
    IN  IF duration.raised = None
        THEN [kind |-> "returned", value |-> duration.tdelta]
        ELSE [kind |-> "raised", value |-> 0]

\* YouTubeTranscriptAgent._parse_duration: how the call ends
parse_duration(duration_str) ==
    LET duration == isodate_parse_duration(duration_str)
    IN  IF duration.raised = None
        THEN [kind |-> "returned", value |-> duration.tdelta]
        ELSE IF Val(duration.raised) \in CaughtByParseDuration
        THEN [kind |-> "returned", value |-> 0]
        ELSE [kind |-> "raised", value |-> 0]

(***************************************************************************)
(* _parse_duration applied to every string of at most MaxDurLen characters *)
(* of the duration grammar and one foreign character, and to the examples. *)
(***************************************************************************)
MaxDurLen == 4

DurAlphabet == {"P", "T", "H", "M", "S", "1", "3", "x"}

DurExamples ==
    {"PT21M53S", "PT0S", "PT1H", "PT1H1M1S", "PT10M", "PT3H3S", "P1DT1H",
     "P1W", "P1Y1M", "P1DT", "PT21M53", "T21M53S", "PT53S21M", "21M53S",
     "PT1H1H"}

DurTexts ==
    {Join(q, "") : q \in UNION {[1..n -> DurAlphabet] : n \in 0..MaxDurLen}}
    \cup DurExamples

DurInit ==
    /\ WfInit
    /\ ParseIdle
    /\ FallbackIdle
    /\ tvalue = ""
    /\ tphase = "off"
    /\ tresult = EmptyDict
    /\ CacheIdle
    /\ ConcIdle
    /\ dvalue \in {Some(s) : s \in DurTexts}
    /\ dresult = None

\* self._parse_duration(duration_str)
ParseDuration ==
    /\ dvalue # None
    /\ dresult = None
    /\ dresult' = Some(parse_duration(Val(dvalue)))
    /\ UNCHANGED <<dvalue, wfVars, parseVars, fbVars, tsVars, cacheVars, concVars>>

DurNext == ParseDuration

SpecDur == DurInit /\ [][DurNext]_vars

(***************************************************************************)
(* The channel cache of api_services/youtube_data_api.py: the file         *)
(* channel_cache.json, the global channel_cache each process loads from it *)
(* when the module is imported, and get_channel_data.  Processes are runs  *)
(* of the program that share the working directory.  Times are in days.    *)
(***************************************************************************)
\* CACHE_TTL = timedelta(days=2)
CACHE_TTL == 2

MaxClock == 2

MaxCacheCalls == 3

Procs == {1, 2}

ChannelOrder == <<"UC1", "UC2">>

Channels == {ChannelOrder[i] : i \in 1..Len(ChannelOrder)}

\* now.isoformat() and datetime.fromisoformat(text)
isoformat(t) == [iso |-> t]
fromisoformat(text) == text.iso

\* The channel_data get_channel_data builds at time t (lines 204-212):
\* channelAge counts the days from the channel's creation to now.
ChannelData(ch, t) == [id |-> ch, channelAge |-> t]

\* json.dump(channel_cache, f, indent=4): the text written, a member for
\* each channel between braces
DumpCache(cache) ==
    LET keys == SelectSeq(ChannelOrder, LAMBDA c : c \in DOMAIN cache)
    IN  <<LB>> \o [i \in 1..Len(keys) |->
                      [t |-> "member", k |-> keys[i], v |-> cache[keys[i]]]]
        \o <<RB>>

\* json.load(f): the mapping of a text that is an object, None for any
\* other text (JSONDecodeError)
LoadText(text) ==
    IF /\ Len(text) >= 2
       /\ text[1] = LB
       /\ text[Len(text)] = RB
       /\ \A i \in 2..(Len(text) - 1) : text[i].t = "member"
    THEN Some([c \in {text[i].k : i \in 2..(Len(text) - 1)} |->
                  text[Max({i \in 2..(Len(text) - 1) : text[i].k = c})].v])
    ELSE None

\* load_channel_cache, lines 25-41
load_channel_cache(file) ==
    IF file = None THEN EmptyDict
    ELSE IF LoadText(Val(file)) = None THEN EmptyDict
    ELSE Val(LoadText(Val(file)))

\* f.write at the start of a file opened with 'w', over what the file
\* holds at that moment
WriteAtStart(old, text) ==
    text \o SubSeq(old, Len(text) + 1, Len(old))

\* Line 179 with <= in place of <.
cache_fresh_inclusive(cache, ch, at) ==
    /\ ch \in DOMAIN cache
    /\ "cached_at" \in DOMAIN cache[ch]
    /\ at - fromisoformat(cache[ch]["cached_at"]) <= CACHE_TTL

\* Lines 177-179: the entry of the channel is there and has not expired
cache_fresh(cache, ch, at) ==
    /\ ch \in DOMAIN cache
    /\ "cached_at" \in DOMAIN cache[ch]
    /\ at - fromisoformat(cache[ch]["cached_at"]) < CACHE_TTL

\* Every variable but those of the cache
exceptCache == <<wfVars, parseVars, fbVars, tsVars, durVars, concVars>>

\* Cache files the program may find when it starts: none, one written by
\* an earlier run, and one whose entry has no cached_at
InitialCacheFiles ==
    {None,
     Some(DumpCache("UC1" :> [data |-> ChannelData("UC1", 0),
                              cached_at |-> isoformat(0)])),
     Some(DumpCache(("UC1" :> [data |-> ChannelData("UC1", 0),
                               cached_at |-> isoformat(0)])
                    @@ ("UC2" :> [data |-> ChannelData("UC2", 0),
                                  cached_at |-> isoformat(0)]))),
     Some(DumpCache("UC1" :> [data |-> ChannelData("UC1", 0)]))}

CacheInit ==
    /\ WfInit
    /\ ParseIdle
    /\ FallbackIdle
    /\ tvalue = ""
    /\ tphase = "off"
    /\ tresult = EmptyDict
    /\ DurIdle
    /\ ConcIdle
    /\ cfile \in InitialCacheFiles
    /\ cmem = [p \in Procs |-> EmptyDict]
    /\ cpc = [p \in Procs |-> "start"]
    /\ clocal = [p \in Procs |-> None]
    /\ cclock = 0
    /\ ccount = 0
    /\ cloads = [p \in Procs |-> None]
    /\ ccalls = [p \in Procs |-> None]

\* Line 61, channel_cache = load_channel_cache(), when process p imports
\* the module
ImportModule(p) ==
    /\ cpc[p] = "start"
    /\ cmem' = [cmem EXCEPT ![p] = load_channel_cache(cfile)]
    /\ cloads' = [cloads EXCEPT ![p] = Some([file |-> cfile])]
    /\ cpc' = [cpc EXCEPT ![p] = "ready"]
    /\ UNCHANGED <<cfile, clocal, cclock, ccount, ccalls, exceptCache>>

\* The record of a get_channel_data call that returns
Returns(p, ch, at, before, hit, result, cache) ==
    [proc |-> p, ch |-> ch, at |-> at, before |-> before, hit |-> hit,
     result |-> result,
     after |-> IF ch \in DOMAIN cache THEN Some(cache[ch]) ELSE None]

\* get_channel_data(youtube, channel_id, video_snippet), lines 172-184:
\* up to the return of the cached data or the request to the API
GetChannelData(p, ch) ==
    /\ cpc[p] = "ready"
    /\ ccount < MaxCacheCalls
    /\ ccount' = ccount + 1
    /\ LET before == IF ch \in DOMAIN cmem[p] THEN Some(cmem[p][ch]) ELSE None
       IN  IF cache_fresh(cmem[p], ch, cclock)
           THEN /\ ccalls' = [ccalls EXCEPT ![p] = Some(
                        Returns(p, ch, cclock, before, TRUE,
                                Some(cmem[p][ch]["data"]), cmem[p]))]
                /\ UNCHANGED <<cpc, clocal>>
           ELSE /\ clocal' = [clocal EXCEPT ![p] =
                        Some([ch |-> ch, now |-> cclock, before |-> before])]
                /\ cpc' = [cpc EXCEPT ![p] = "fetch"]
                /\ UNCHANGED ccalls
    /\ UNCHANGED <<cfile, cmem, cclock, cloads, exceptCache>>

\* Lines 185-218: the API answers; with a channel item the entry is stored
\* in channel_cache with the time the call started at
FetchChannel(p, o) ==
    /\ cpc[p] = "fetch"
    /\ LET l == Val(clocal[p])
           channel_data == ChannelData(l.ch, l.now)
       IN  IF o = "ok"
           THEN /\ cmem' = [cmem EXCEPT ![p] =
                        (l.ch :> [data |-> channel_data,
                                  cached_at |-> isoformat(l.now)]) @@ @]
                /\ clocal' = [clocal EXCEPT ![p] =
                        Some(l @@
                             [channel_data |-> channel_data])]
                /\ cpc' = [cpc EXCEPT ![p] = "save_open"]
                /\ UNCHANGED ccalls
           ELSE \* lines 191-193 and 226-231: return None
                /\ ccalls' = [ccalls EXCEPT ![p] = Some(
                        Returns(p, l.ch, l.now, l.before, FALSE, None, cmem[p]))]
                /\ clocal' = [clocal EXCEPT ![p] = None]
                /\ cpc' = [cpc EXCEPT ![p] = "ready"]
                /\ UNCHANGED cmem
    /\ UNCHANGED <<cfile, cclock, ccount, cloads, exceptCache>>

\* save_channel_cache, line 67: open(CHANNEL_CACHE_FILE, 'w') empties the
\* file, or raises and the cache is not saved (lines 70-71)
SaveOpen(p, o) ==
    /\ cpc[p] = "save_open"
    /\ LET l == Val(clocal[p])
       IN  IF o = "ok"
           THEN /\ cfile' = Some(<<>>)
                /\ cpc' = [cpc EXCEPT ![p] = "save_write"]
                /\ UNCHANGED <<clocal, ccalls>>
           ELSE /\ ccalls' = [ccalls EXCEPT ![p] = Some(
                        Returns(p, l.ch, l.now, l.before, FALSE,
                                Some(l.channel_data), cmem[p]))]
                /\ clocal' = [clocal EXCEPT ![p] = None]
                /\ cpc' = [cpc EXCEPT ![p] = "ready"]
                /\ UNCHANGED cfile
    /\ UNCHANGED <<cmem, cclock, ccount, cloads, exceptCache>>

\* save_channel_cache, lines 68-69, and line 221: the text is written from
\* the start of the file and get_channel_data returns the channel data
SaveWrite(p) ==
    /\ cpc[p] = "save_write"
    /\ LET l == Val(clocal[p])
       IN  /\ cfile' = Some(WriteAtStart(Val(cfile), DumpCache(cmem[p])))
           /\ ccalls' = [ccalls EXCEPT ![p] = Some(
                   Returns(p, l.ch, l.now, l.before, FALSE,
                           Some(l.channel_data), cmem[p]))]
    /\ clocal' = [clocal EXCEPT ![p] = None]
    /\ cpc' = [cpc EXCEPT ![p] = "ready"]
    /\ UNCHANGED <<cmem, cclock, ccount, cloads, exceptCache>>

\* A day passes
Tick ==
    /\ cclock < MaxClock
    /\ cclock' = cclock + 1
    /\ UNCHANGED <<cfile, cmem, cpc, clocal, ccount, cloads, ccalls, exceptCache>>

CacheNext ==
    \/ \E p \in Procs : ImportModule(p)
    \/ \E p \in Procs, ch \in Channels : GetChannelData(p, ch)
    \/ \E p \in Procs, o \in {"ok", "no_items", "http_error"} : FetchChannel(p, o)
    \/ \E p \in Procs, o \in {"ok", "raises"} : SaveOpen(p, o)
    \/ \E p \in Procs : SaveWrite(p)
    \/ Tick

SpecCache == CacheInit /\ [][CacheNext]_vars

(***************************************************************************)
(* Several run_workflow calls on one event loop.  asyncio runs a coroutine *)
(* until it awaits something that is not ready: of the awaits a call       *)
(* reaches, only the request to the model                                  *)
(* (agents/transcript_insight_agent.py, line 89) suspends it;              *)
(* transcript_agent.run and _process_transcript await nothing that waits.  *)
(* WorkflowState objects live in a heap so that two names for one object   *)
(* see each other's writes.                                                *)
(***************************************************************************)
Coros == {1, 2}
Managers == {1, 2}

\* The positions at which a coroutine is not running: not started,
\* suspended in the request to the model, returned
Parked == {"new", "model_wait", "returned"}

\* The event loop runs one coroutine at a time: c may take a step when no
\* other coroutine is between two suspension points.
MayRun(c) == \A d \in Coros \ {c} : coros[d].pc \in Parked

ConcUrls ==
    { Url("youtu.be", "id", IdA, None),
      Url("www.youtube.com", "embed", IdB, None),
      Url("youtu.be", "root", NoId, None) }

ConcApiOutcomes == {"ok", "exception"}
ConcTranscriptOutcomes == {"ok", "ok_empty", "bad_items"}
ConcModelOutcomes == {"ok", "timeout"}
ConcModelTexts == { <<LB, SummaryX, RB>>, <<W, SummaryX>> }

NewCoro ==
    [pc |-> "new", manager |-> 0, url |-> None, save_output |-> FALSE,
     state_dict |-> None, analysis |-> None, ret |-> 0]

\* Every variable but those of the calls
exceptConc == <<wfVars, parseVars, fbVars, tsVars, durVars, cacheVars>>

ConcInit ==
    /\ WfInit
    /\ ParseIdle
    /\ FallbackIdle
    /\ tvalue = ""
    /\ tphase = "off"
    /\ tresult = EmptyDict
    /\ DurIdle
    /\ CacheIdle
    /\ heap = [m \in Managers |-> DefaultWorkflowState]
    /\ mgrs = [m \in Managers |-> [state |-> m, save_output |-> TRUE]]
    /\ coros = [c \in Coros |-> NewCoro]
    /\ rnow = 0

\* YouTubeTranscriptAgent.run, lines 89-175, as the one step it is for the
\* event loop: the fetches, the record, and its handler.
transcript_agent_run(id, om, ot) ==
    LET meta == get_youtube_video_data(id, om)
        result == get_video_transcript_data(WatchUrl(id), ot)
    IN  IF IsSome(result) /\ ot = "bad_items"
        THEN VideoDataMinimal(id, <<>>)
        ELSE LET segs == IF IsSome(result)
                         THEN process_transcript(Val(result).transcript)
                         ELSE <<>>
             IN  IF IsSome(meta)
                 THEN VideoDataFromApi(id, Val(meta), segs)
                 ELSE VideoDataMinimal(id, segs)

\* An assignment that writes the new state into the object self.state
\* already names.
bind_state_in_place(hp, ref, st) ==
    [heap |-> [hp EXCEPT ![ref] = st], ref |-> ref]

\* self.state = WorkflowState(...) (lines 25 and 86): a new object is made
\* and the manager's attribute is bound to it.
bind_state(hp, ref, st) ==
    [heap |-> Append(hp, st), ref |-> Len(hp) + 1]

\* run_workflow, lines 43-84, up to the call of the analysis node:
\* _init_state, the early returns, the transcript agent, the writes to
\* self.state and its dump.
StartRun(c, m, u, s, k, om, ot) ==
    /\ coros[c].pc = "new"
    /\ MayRun(c)
    /\ LET b == bind_state(heap, mgrs[m].state,
                           init_state(u, Some("mistral:latest"), rnow))
           id == get_video_id_from_url(u)
           mine == [coros[c] EXCEPT !.manager = m, !.url = Some(u),
                                    !.save_output = s]
       IN  /\ mgrs' = [mgrs EXCEPT ![m] = [state |-> b.ref, save_output |-> s]]
           /\ IF Falsy(id) \/ ~k
              THEN /\ heap' = [b.heap EXCEPT ![b.ref] =
                                 [@ EXCEPT !.error =
                                       Some(IF Falsy(id) THEN "Invalid YouTube URL"
                                            ELSE "Missing YouTube API key"),
                                           !.error_node = Some("workflow_manager")]]
                   /\ coros' = [coros EXCEPT ![c] =
                                   [mine EXCEPT !.pc = "returned", !.ret = b.ref]]
              ELSE /\ heap' = [b.heap EXCEPT ![b.ref] =
                                 [@ EXCEPT !.video_id = id,
                                           !.video_data =
                                               Some(transcript_agent_run(Val(id), om, ot)),
                                           !.transcript_extraction_completed = TRUE]]
                   /\ coros' = [coros EXCEPT ![c] =
                                   [mine EXCEPT !.pc = "process",
                                                !.state_dict = Some(heap'[b.ref])]]
    /\ rnow' = rnow + 1
    /\ UNCHANGED exceptConc

\* TranscriptAnalysisNode.process, lines 30-42, and TranscriptInsightsAgent.run,
\* lines 98-110: without a transcript the agent answers at once, otherwise
\* the coroutine is suspended in the request to the model.
NodeProcess(c) ==
    /\ coros[c].pc = "process"
    /\ MayRun(c)
    /\ LET video == Val(Val(coros[c].state_dict).video_data) IN
        coros' = [coros EXCEPT ![c] =
                     IF video.transcript = <<>>
                     THEN [@ EXCEPT !.analysis = Some(VideoAnalysisDefaults(video)),
                                    !.pc = "store"]
                     ELSE [@ EXCEPT !.pc = "model_wait"]]
    /\ UNCHANGED <<heap, mgrs, rnow, exceptConc>>

\* The request is answered and TranscriptInsightsAgent.run, lines 112-133,
\* extracts the record: the coroutine runs again.
ModelAnswer(c, o, text) ==
    /\ coros[c].pc = "model_wait"
    /\ MayRun(c)
    /\ o = "ok" \/ text = <<>>
    /\ LET video == Val(Val(coros[c].state_dict).video_data)
           resp == IF o = "ok" THEN text ELSE ErrorText
       IN  coros' = [coros EXCEPT ![c] =
                        [@ EXCEPT !.analysis = Some(insights_extract(video, resp).rec),
                                  !.pc = "store"]]
    /\ UNCHANGED <<heap, mgrs, rnow, exceptConc>>

\* TranscriptAnalysisNode.process, lines 44-65, on the node's own dict
StoreAnalysis(c, f) ==
    /\ coros[c].pc = "store"
    /\ MayRun(c)
    /\ coros[c].save_output \/ f = "ok"
    /\ LET st == [Val(coros[c].state_dict) EXCEPT
                     !.analysis_result = coros[c].analysis]
       IN  coros' = [coros EXCEPT ![c] =
              [@ EXCEPT !.state_dict =
                          Some(IF f = "raises"
                               THEN [st EXCEPT !.error = Some(FileError),
                                               !.transcript_analysis_completed = FALSE]
                               ELSE [st EXCEPT !.transcript_analysis_completed = TRUE]),
                        !.pc = "adopt"]]
    /\ UNCHANGED <<heap, mgrs, rnow, exceptConc>>

\* run_workflow, lines 86-104: the node's dict becomes a new self.state, the
\* end time is written to self.state, the state file is written when
\* self.save_output says so, and self.state is returned; a failed write
\* goes to the handler, which writes to self.state and returns it.
FinishRun(c, f) ==
    /\ coros[c].pc = "adopt"
    /\ MayRun(c)
    /\ LET m == coros[c].manager
           b == bind_state(heap, mgrs[m].state, Val(coros[c].state_dict))
           st == [b.heap[b.ref] EXCEPT !.end_time = Some(rnow)]
           saves == mgrs[m].save_output /\ ~Falsy(st.video_id)
       IN  /\ saves \/ f = "ok"
           /\ mgrs' = [mgrs EXCEPT ![m].state = b.ref]
           /\ IF saves /\ f = "raises"
              THEN /\ heap' = [b.heap EXCEPT ![b.ref] =
                                 run_workflow_except(st, FileError, rnow + 1).state]
                   /\ rnow' = rnow + 2
              ELSE /\ heap' = [b.heap EXCEPT ![b.ref] = st]
                   /\ rnow' = rnow + 1
           /\ coros' = [coros EXCEPT ![c] = [@ EXCEPT !.pc = "returned",
                                                      !.ret = b.ref]]
    /\ UNCHANGED exceptConc

ConcNext ==
    \/ \E c \in Coros, m \in Managers, u \in ConcUrls, s \in BOOLEAN, k \in BOOLEAN,
          om \in ConcApiOutcomes, ot \in ConcTranscriptOutcomes :
            StartRun(c, m, u, s, k, om, ot)
    \/ \E c \in Coros : NodeProcess(c)
    \/ \E c \in Coros, o \in ConcModelOutcomes, text \in ConcModelTexts \cup {<<>>} :
            ModelAnswer(c, o, text)
    \/ \E c \in Coros, f \in FileOutcomes : StoreAnalysis(c, f)
    \/ \E c \in Coros, f \in FileOutcomes : FinishRun(c, f)

SpecConc == ConcInit /\ [][ConcNext]_vars

(***************************************************************************)
(* What the claims speak of.                                               *)
(***************************************************************************)
Range(seq) == {seq[i] : i \in 1..Len(seq)}

\* run_workflow has returned its state to the caller
Returned == pc = "returned"

\* The run passed the URL and API-key checks and started its stages
StagesStarted == calls # <<>>

MetadataFailed == outcome.metadata \in {"no_items", "http_error", "exception"}
TranscriptFailed == outcome.transcript \in {"null", "raises", "bad_items"}
ModelFailed == outcome.model \in {"http_error", "timeout"}
ExtractionFailed == outcome.extract = "fallback"

AnyStageFailed ==
    MetadataFailed \/ TranscriptFailed \/ ModelFailed \/ ExtractionFailed

AllStagesSucceeded ==
    /\ outcome.metadata = "ok"
    /\ outcome.transcript = "ok"
    /\ outcome.model = "ok"
    /\ outcome.extract = "strict"

AllStages == <<"metadata", "transcript", "model", "extract">>

(***************************************************************************)
(* C1.  For every combination of stage outcomes, run_workflow eventually   *)
(* returns a WorkflowState to its caller, and no exception leaves it.      *)
(***************************************************************************)
C1_AlwaysReturns ==
    /\ [](pc # "escaped")
    /\ [](pc \notin {"idle", "returned"} => <>(pc = "returned"))

\* A run in which the metadata fetch raised, the model request timed out,
\* the extraction fell back and writing the state file raised has returned.
C1_Witness ==
    /\ Returned
    /\ outcome.metadata = "exception"
    /\ outcome.model = "timeout"
    /\ outcome.extract = "fallback"
    /\ outcome.state_file = "raises"
    /\ state.error_node = Some("workflow_manager")

(***************************************************************************)
(* C2.  The state run_workflow returns has error unset if and only if      *)
(* every stage succeeded: with all four stages successful error is unset,  *)
(* and with any stage failed error is set.                                 *)
(***************************************************************************)
C2_DoneIffAllSucceeded ==
    Returned =>
        /\ AllStagesSucceeded => state.error = None
        /\ AnyStageFailed => state.error # None

(***************************************************************************)
(* C3.  Whenever a stage fails the returned state records both error and   *)
(* error_node, and no returned state has error set with error_node empty.  *)
(***************************************************************************)
C3_ErrorNamesItsNode ==
    Returned =>
        /\ AnyStageFailed => state.error # None /\ state.error_node # None
        /\ state.error # None => state.error_node # None

(***************************************************************************)
(* C4.  Every state run_workflow returns carries both video_data and       *)
(* analysis_result, whether or not an error is recorded.                   *)
(***************************************************************************)
C4_CompleteRecord ==
    Returned => state.video_data # None /\ state.analysis_result # None

(***************************************************************************)
(* C5.  After the transcript fetch has failed and an empty transcript has  *)
(* been substituted, the run still calls the generative model.             *)
(***************************************************************************)
C5_ModelCalledWithoutTranscript ==
    (Returned /\ outcome.transcript \in {"null", "raises"}) =>
        "model" \in Range(calls)

(***************************************************************************)
(* C6.  When the transcript fetch returns null and the metadata fetch      *)
(* succeeds, the returned state has transcript_extraction_completed false. *)
(***************************************************************************)
C6_ExtractionFlagFalse ==
    (Returned /\ outcome.transcript \in {"null", "raises"}
              /\ outcome.metadata = "ok") =>
        state.transcript_extraction_completed = FALSE

(***************************************************************************)
(* C7.  When the model request gets a non-success response or times out,   *)
(* the client returns an error text instead of raising, and the returned   *)
(* state records an error and has transcript_analysis_completed false.     *)
(***************************************************************************)
C7_ModelErrorIsStageFailure ==
    (Returned /\ ModelFailed) =>
        /\ response = ErrorText
        /\ state.error # None
        /\ state.transcript_analysis_completed = FALSE

(***************************************************************************)
(* C8.  A run that starts its stages attempts each of the four exactly     *)
(* once, in the order metadata fetch, transcript fetch, model invocation,  *)
(* extraction; and at every moment the stages attempted so far are the     *)
(* first ones of that order.                                               *)
(***************************************************************************)
C8_EachStageOnceInOrder ==
    /\ Len(calls) <= 4 /\ calls = SubSeq(AllStages, 1, Len(calls))
    /\ (Returned /\ StagesStarted) => calls = AllStages

(***************************************************************************)
(* The three decoding strategies the claims name, each yielding the        *)
(* mapping it decodes or None: (a) the entire text, (b) the contents of a  *)
(* fenced json block, (c) the first balanced brace-delimited span.         *)
(***************************************************************************)
DecodedMapping(toks) ==
    IF json_loads(toks).ok /\ json_loads(toks).isdict
    THEN Some(json_loads(toks).map) ELSE None

StrategyWhole(toks) == DecodedMapping(toks)

StrategyFenced(toks) ==
    IF IsSome(FencedGroup(toks)) THEN DecodedMapping(Val(FencedGroup(toks))) ELSE None

\* The span from the first opening brace to the brace that closes it
FirstBalancedSpan(toks) ==
    LET opens == {i \in 1..Len(toks) : toks[i].t = "lb"} IN
    IF opens = {} THEN None
    ELSE LET i == Min(opens)
             Count(j, ty) == Cardinality({k \in i..j : toks[k].t = ty})
             ends == {j \in i..Len(toks) : Count(j, "lb") = Count(j, "rb")}
         IN  IF ends = {} THEN None ELSE Some(SubSeq(toks, i, Min(ends)))

StrategyBalanced(toks) ==
    IF IsSome(FirstBalancedSpan(toks))
    THEN DecodedMapping(Val(FirstBalancedSpan(toks))) ELSE None

\* The mapping of the first strategy that decodes, in the order (a), (b), (c)
FirstDecoded(toks) ==
    IF IsSome(StrategyWhole(toks)) THEN StrategyWhole(toks)
    ELSE IF IsSome(StrategyFenced(toks)) THEN StrategyFenced(toks)
    ELSE StrategyBalanced(toks)

(***************************************************************************)
(* C9.  The strict parser tries (a), (b), (c) in this order and stops at   *)
(* the first that decodes: a text for which at least one of them decodes   *)
(* is parsed without falling back, into the record of the first one that   *)
(* decodes; the parser fails only when all three fail.                     *)
(***************************************************************************)
C9_ThreeStrategiesInOrder ==
    pphase = "insights" =>
        IF IsSome(FirstDecoded(ptext))
        THEN /\ presult.path = "strict"
             /\ presult.rec = InsightsRecord(SampleVideo, Val(FirstDecoded(ptext)))
        ELSE presult.path = "fallback"

(***************************************************************************)
(* C10.  Round trip: for a model output that is a valid encoding of an     *)
(* analysis record, the strict parsing path returns a record whose every   *)
(* field equals the encoded value.                                         *)
(***************************************************************************)
C10_RoundTrip ==
    /\ pphase = "insights" =>
          \A r \in InsRecords :
              ptext = Encode(r) => presult.path = "strict" /\ presult.rec = r
    /\ pphase = "base" =>
          \A r \in EnhRecords :
              ptext = Encode(r) => presult.path = "strict" /\ presult.rec = r

(***************************************************************************)
(* C11.  When the model output holds a fenced json block whose contents    *)
(* decode to a mapping, the insights parser takes the strict path, the     *)
(* fallback extraction is not used, and summary, main_topics and           *)
(* key_points of the record are the values of the block (their defaults    *)
(* for a key the block does not have).                                     *)
(***************************************************************************)
C11_FencedBlockParsed ==
    (pphase = "insights" /\ IsSome(StrategyFenced(ptext))) =>
        LET block == Val(StrategyFenced(ptext)) IN
        /\ presult.path = "strict"
        /\ presult.rec.summary = Get(block, "summary", "")
        /\ presult.rec.main_topics = Get(block, "main_topics", <<>>)
        /\ presult.rec.key_points = Get(block, "key_points", <<>>)

C11_Witness ==
    /\ pphase = "insights"
    /\ ptext = <<FO, LB, SummaryX, KV("main_topics", <<"a">>),
                 KV("key_points", <<"b">>), RB, FC>>
    /\ presult.path = "strict"
    /\ presult.rec.summary = "x"
    /\ presult.rec.main_topics = <<"a">>
    /\ presult.rec.key_points = <<"b">>

(***************************************************************************)
(* C20.  The timestamp normalizer tries H:MM:SS, M:SS, XmYs, Xm, Xs and    *)
(* the bare float in this order on a candidate string and converts by the  *)
(* first that matches: H*3600+M*60+S, M*60+S, X*60+Y, X*60, X, the value   *)
(* itself.  "1:02:03" gives 3723, "5:30" 330, "5m30s" 330, "5m" 300 and    *)
(* "45s" 45; a string that matches no pattern gives no value.              *)
(***************************************************************************)
\* The value the normalizer returned for the candidate string
Normalized == IF TimeLabel \in DOMAIN tresult THEN Some(tresult[TimeLabel]) ELSE None

\* The conversion the claim gives for its pattern number k
ClaimedSeconds(k, g) ==
    CASE k = 1 -> Seconds(ToInt(g[1]) * 3600 + ToInt(g[2]) * 60 + ToInt(g[3]))
      [] k = 2 -> Seconds(ToInt(g[1]) * 60 + ToInt(g[2]))
      [] k = 3 -> Seconds(ToInt(g[1]) * 60 + ToInt(g[2]))
      [] k = 4 -> Seconds(ToInt(g[1]) * 60)
      [] k = 5 -> Seconds(ToInt(g[1]))
      [] k = 6 -> Normal(ToInt(g[1] \o g[2]), Pow10(Len(g[2])))

PatternMatches(k, s) == IsSome(FindFirst(timestamp_patterns[k], s))

C20_PatternOrder ==
    tphase = "done" =>
        LET s == Strip(tvalue) IN
        /\ \A k \in 1..6 :
              (PatternMatches(k, s) /\ \A j \in 1..(k - 1) : ~PatternMatches(j, s))
              => Normalized = Some(ClaimedSeconds(k, Val(FindFirst(timestamp_patterns[k], s))))
        /\ (\A k \in 1..6 : ~PatternMatches(k, s)) => Normalized = None
        /\ tvalue = "1:02:03" => Normalized = Some(Seconds(3723))
        /\ tvalue = "5:30" => Normalized = Some(Seconds(330))
        /\ tvalue = "5m30s" => Normalized = Some(Seconds(330))
        /\ tvalue = "5m" => Normalized = Some(Seconds(300))
        /\ tvalue = "45s" => Normalized = Some(Seconds(45))
        /\ tvalue = "45" => Normalized = None

C20_Witness ==
    /\ tphase = "done"
    /\ tvalue = "1:02:03"
    /\ Normalized = Some(Seconds(3723))

(***************************************************************************)
(* C12.  When every strict decode strategy fails on the model output,      *)
(* control passes to fallback extraction, which returns a record: the      *)
(* decode failure does not leave the agent's run.                          *)
(***************************************************************************)
\* json.loads accepts the candidate of none of the three strategies
NoStrategyDecodes(toks) ==
    /\ ~json_loads(toks).ok
    /\ IsSome(FencedGroup(toks)) => ~json_loads(Val(FencedGroup(toks))).ok
    /\ IsSome(FirstBalancedSpan(toks)) => ~json_loads(Val(FirstBalancedSpan(toks))).ok

C12_FallbackReturnsRecord ==
    (pphase \in {"insights", "base", "enh_ok"} /\ NoStrategyDecodes(ptext)) =>
        /\ presult.path = "fallback"
        /\ presult.rec =
              IF pphase = "insights"
              THEN insights_fallback_parsing(ptext, SampleVideo)
              ELSE enh_fallback_parsing(RenderLines(ptext), SampleEnhVideo)

C12_Witness ==
    /\ pphase = "insights"
    /\ ptext = <<FO, W, FC, W>>
    /\ NoStrategyDecodes(ptext)
    /\ presult.path = "fallback"
    /\ presult.rec.summary = "Summary extraction failed"


(***************************************************************************)
(* Claims about the records of fallback extraction (SpecFallback).         *)
(***************************************************************************)
IsPrefixOf(short, long) ==
    Len(short) <= Len(long) /\ \A i \in 1..Len(short) : short[i] = long[i]

\* C13: every record returned by fallback extraction has a content_quality
\* between 1 and 10, at most 7 main topics and at most 8 key points, and the
\* topics and key points it keeps are the first ones the extraction found,
\* in the order it found them.
C13_FallbackRecordBounds ==
    \A i \in 1..Len(fresults) :
        /\ fresults[i].content_quality \in 1..10
        /\ Len(fresults[i].main_topics) <= 7
        /\ Len(fresults[i].key_points) <= 8
        /\ pphase = "off" /\ Val(flocals).main_topics # <<>> =>
              /\ IsPrefixOf(fresults[i].main_topics, Val(flocals).main_topics)
              /\ Len(fresults[i].main_topics) = 7
                    \/ fresults[i].main_topics = Val(flocals).main_topics
        /\ pphase = "off" /\ Val(flocals).key_points # <<>> =>
              /\ IsPrefixOf(fresults[i].key_points, Val(flocals).key_points)
              /\ Len(fresults[i].key_points) = 8
                    \/ fresults[i].key_points = Val(flocals).key_points

\* A text with eight topics and nine key points was processed: the record
\* keeps the first seven and the first eight.
C13_Witness ==
    /\ fresults # <<>>
    /\ Len(Val(flocals).main_topics) = 8
    /\ Len(Val(flocals).key_points) = 9
    /\ fresults[1].main_topics = <<"t1", "t2", "t3", "t4", "t5", "t6", "t7">>
    /\ fresults[1].key_points = <<"k1", "k2", "k3", "k4", "k5", "k6", "k7", "k8">>


\* The text of the summary sections of the lines: what the extraction can
\* recover as a summary.
RecoveredSummary(lines) ==
    LET sections == SectionsOf(lines, NoSections)
        named == {i \in 1..Len(sections.names) :
                     /\ Contains(sections.names[i], "summary")
                     /\ sections.content[sections.names[i]] # <<>>}
    IN  IF named = {} THEN None
        ELSE Some(Join(sections.content[sections.names[Max(named)]], " "))

\* C14: every record returned by fallback extraction has a non-empty
\* summary, and when no summary text was recovered (a summary section with
\* no content lines included) the summary is the generated placeholder that
\* names the video's title and channel.
C14_SummaryNonEmpty ==
    \A i \in 1..Len(fresults) :
        /\ fresults[i].summary # ""
        /\ pphase = "off" /\ RecoveredSummary(ftext) = None =>
              fresults[i].summary = placeholder_summary(Val(finput))


\* C15: every topic segment of a record returned by fallback extraction
\* ends no earlier than it starts, whatever the topic timestamps and the
\* transcript are (a transcript that ends before the topic starts included).
C15_SegmentEndNotBeforeStart ==
    \A i \in 1..Len(fresults) :
        \A k \in 1..Len(fresults[i].topic_segments) :
            ~SecGreater(fresults[i].topic_segments[k].start_time,
                        fresults[i].topic_segments[k].end_time)


\* The end time alignment is to give segment k of a record's segments: the
\* smallest start time of the segments of other topics that start strictly
\* later; without one, the end of the transcript's last entry, or the start
\* plus 300 seconds when there is no transcript.
AlignedEnd(segments, k, transcript) ==
    LET later == {j \in 1..Len(segments) :
                     /\ segments[j].topic # segments[k].topic
                     /\ SecGreater(segments[j].start_time, segments[k].start_time)}
        first == CHOOSE j \in later : \A m \in later :
                     ~SecGreater(segments[j].start_time, segments[m].start_time)
    IN  IF later # {} THEN segments[first].start_time
        ELSE IF Len(transcript) > 0
        THEN Seconds(transcript[Len(transcript)].start
                     + Get(transcript[Len(transcript)], "duration", 0))
        ELSE SecPlus(segments[k].start_time, 300)

\* a = b as numbers of seconds
SecEqual(a, b) == a.num * b.den = b.num * a.den

\* C16: a topic segment ends at the smallest start time among the other
\* topics that start strictly later; only when there is no later topic does
\* it end at the last transcript entry's start + duration, or at start + 300
\* seconds when there is no transcript.
C16_EndIsNextTopicStart ==
    \A i \in 1..Len(fresults) :
        \A k \in 1..Len(fresults[i].topic_segments) :
            SecEqual(fresults[i].topic_segments[k].end_time,
                     AlignedEnd(fresults[i].topic_segments, k,
                                fresults[i].original_data.transcript))


\* The `label: value` pairs of the section lines of a text whose value is a
\* parsable timestamp, each as <<label, seconds>>.
LabelledTimes(lines) ==
    LET sections == SectionsOf(lines, NoSections)
        content == UNION {{sections.content[n][j] :
                              j \in 1..Len(sections.content[n])} :
                          n \in DOMAIN sections.content}
        pairs == {SplitFirst(line, ":") : line \in content}
    IN  {<<Strip(p[1]), Val(value_seconds(Strip(p[2])))>> :
            p \in {q \in pairs : Len(q) = 2 /\ IsSome(value_seconds(Strip(q[2])))}}

\* C17: every detected topic for which the section text holds a
\* `label: value` pair, the label equal to the topic ignoring case and the
\* value a parsable timestamp, gets a topic segment that starts at that
\* timestamp; topics written with upper-case letters and sections with
\* several such pairs included.
C17_LabelledTopicGetsSegment ==
    \A i \in 1..Len(fresults) :
        pphase = "off" =>
            \A t \in 1..Len(fresults[i].main_topics) :
                \A p \in LabelledTimes(ftext) :
                    Lower(p[1]) = Lower(fresults[i].main_topics[t]) =>
                        \E k \in 1..Len(fresults[i].topic_segments) :
                            /\ fresults[i].topic_segments[k].topic
                                  = fresults[i].main_topics[t]
                            /\ SecEqual(fresults[i].topic_segments[k].start_time,
                                        p[2])


\* C18: the topic segments of a record returned by fallback extraction are
\* ordered by non-decreasing start time, whatever the order in which the
\* text lists the topics.
C18_SegmentsOrderedByStart ==
    \A i \in 1..Len(fresults) :
        \A k \in 1..Len(fresults[i].topic_segments) - 1 :
            ~SecGreater(fresults[i].topic_segments[k].start_time,
                        fresults[i].topic_segments[k + 1].start_time)

DurNumbers == {"", "0", "1", "3", "10", "21", "53"}

\* The PT#H#M#S string with the given hours, minutes and seconds
FormatPT(h, m, sec) ==
    "PT" \o (IF h = "" THEN "" ELSE h \o "H")
         \o (IF m = "" THEN "" ELSE m \o "M")
         \o (IF sec = "" THEN "" ELSE sec \o "S")

\* s with every run of digits replaced by "#"
RECURSIVE Skeleton(_)
Skeleton(s) ==
    IF s = "" THEN ""
    ELSE IF Char(s, 1) \in Digits
    THEN "#" \o Skeleton(Slice(s, DigitRunEnd(s, 1) + 1, Len(s)))
    ELSE Char(s, 1) \o Skeleton(Slice(s, 2, Len(s)))

\* The concatenations of a subset of the groups, in order
RECURSIVE Optional(_)
Optional(groups) ==
    IF groups = <<>> THEN {""}
    ELSE {a \o b : a \in {"", Head(groups)}, b \in Optional(Tail(groups))}

\* The skeletons of the duration strings of the designator form: date
\* groups, then possibly T and time groups.
DurationSkeletons ==
    {"P" \o d \o t : d \in Optional(<<"#Y", "#M", "#W", "#D">>),
                     t \in {""} \cup {"T" \o g : g \in Optional(<<"#H", "#M", "#S">>)}}
    \ {"P"}

\* C21: _parse_duration returns the total number of seconds of a
\* well-formed PT#H#M#S string, and returns 0 without raising for every
\* string that is not a duration.
C21_DurationSeconds ==
    dresult # None =>
        /\ \A h \in DurNumbers, m \in DurNumbers, sec \in DurNumbers :
              Val(dvalue) = FormatPT(h, m, sec) =>
                  Val(dresult) = [kind |-> "returned",
                                  value |-> ToInt(h) * 3600 + ToInt(m) * 60
                                            + ToInt(sec)]
        /\ Skeleton(Val(dvalue)) \notin DurationSkeletons =>
              Val(dresult) = [kind |-> "returned", value |-> 0]

\* PT21M53S was parsed and gave 1313.
C21_Witness ==
    /\ dvalue = Some("PT21M53S")
    /\ dresult = Some([kind |-> "returned", value |-> 1313])


(***************************************************************************)
(* Claim about schema coercion (SpecParse).                                *)
(***************************************************************************)
\* The field f of the decoded mapping is present, of the right shape and
\* in range.
FieldValid(map, f) ==
    /\ f \in DOMAIN map
    /\ f = "content_quality" => map[f] \in 1..10
    /\ f = "original_data" => EnhVideoRequired \subseteq DOMAIN map[f]
    /\ f = "topic_segments" =>
          \A i \in 1..Len(map[f]) : SegmentRequired \subseteq DOMAIN map[f][i]

EnhFields == EnhRequired \cup DOMAIN EnhDefaults

\* C22: coercion is per field.  When the decoded model output has one field
\* absent, of the wrong shape or out of range and the other fields valid,
\* the record the agent returns keeps every valid field as decoded; the
\* decoded record as a whole is never discarded.
C22_PerFieldCoercion ==
    (/\ pphase = "enh_ok"
     /\ json_loads(ptext).ok
     /\ json_loads(ptext).isdict
     /\ Cardinality({f \in EnhFields : ~FieldValid(json_loads(ptext).map, f)}) <= 1)
    => \A f \in EnhFields :
          FieldValid(json_loads(ptext).map, f) =>
              presult.rec[f] = json_loads(ptext).map[f]


(***************************************************************************)
(* Claims about the channel cache (SpecCache).                             *)
(***************************************************************************)
\* The age in days, at the time the call read the clock, of the entry the
\* call found; None when there was no entry or it had no cached_at.
AgeFound(call) ==
    IF call.before = None THEN None
    ELSE IF "cached_at" \notin DOMAIN Val(call.before) THEN None
    ELSE Some(call.at - fromisoformat(Val(call.before)["cached_at"]))

\* C23: a read returns a cache entry only while its age is below the TTL of
\* 48 hours (2 days); an entry that is 48 hours old or older, or has no
\* cached_at, is treated as absent and the channel is fetched again, and
\* after a successful fetch the entry's data and cached_at are replaced.
C23_TtlOnRead ==
    \A p \in Procs :
        ccalls[p] # None =>
            LET call == Val(ccalls[p])
                young == AgeFound(call) # None /\ Val(AgeFound(call)) < 2
            IN  /\ call.hit <=> young
                /\ call.hit => call.result = Some(Val(call.before)["data"])
                /\ ~young /\ call.result # None =>
                      call.after = Some([data |-> ChannelData(call.ch, call.at),
                                         cached_at |-> isoformat(call.at)])

\* A call found an entry exactly 48 hours old, fetched the channel again
\* and replaced the entry.
C23_Witness ==
    \E p \in Procs :
        /\ ccalls[p] # None
        /\ AgeFound(Val(ccalls[p])) = Some(2)
        /\ ~Val(ccalls[p]).hit
        /\ Val(ccalls[p]).result = Some(ChannelData(Val(ccalls[p]).ch, 2))
        /\ Val(Val(ccalls[p]).after)["cached_at"] = isoformat(2)


\* C24: updates of the cache file are atomic replaces.  With concurrent
\* runs saving and loading the cache file, no load reads a partially
\* written or corrupted file, and no save leaves one behind; a run's entry
\* may be lost to another run's stale copy, nothing more.
C24_AtomicReplace ==
    /\ \A p \in Procs :
          cloads[p] # None /\ Val(cloads[p]).file # None =>
              LoadText(Val(Val(cloads[p]).file)) # None
    /\ (cfile # None /\ \A p \in Procs : cpc[p] # "save_write") =>
          LoadText(Val(cfile)) # None

\* The video a call was made for, and whether a returned state belongs to it
OwnVideo(c) == get_video_id_from_url(Val(coros[c].url))

ReturnedState(c) == heap[coros[c].ret]

\* C25: when run_workflow calls interleave at their suspension points, on
\* one WorkflowManager or on two, the state each call returned carries the
\* URL it was called with, and its video_id, video_data and analysis_result,
\* where set, are those of its own video, also after the other call has
\* gone on.
C25_ReturnedStateIsOwn ==
    \A c \in Coros :
        coros[c].pc = "returned" =>
            LET r == ReturnedState(c) IN
                /\ r.video_url = coros[c].url
                /\ r.video_id # None => r.video_id = OwnVideo(c)
                /\ r.video_data # None =>
                      Val(r.video_data).video_id = Val(OwnVideo(c))
                /\ r.analysis_result # None =>
                      Val(r.analysis_result).original_data.video_id = Val(OwnVideo(c))

\* Two calls for different videos on the same WorkflowManager, both
\* analysed by the model, have returned, and each began before the other
\* ended.
C25_Witness ==
    /\ \A c \in Coros : coros[c].pc = "returned"
    /\ coros[1].manager = coros[2].manager
    /\ OwnVideo(1) # OwnVideo(2)
    /\ \A c \in Coros :
          /\ ReturnedState(c).analysis_result # None
          /\ Val(ReturnedState(c).analysis_result).summary = "x"
    /\ Val(ReturnedState(1).start_time) < Val(ReturnedState(2).end_time)
    /\ Val(ReturnedState(2).start_time) < Val(ReturnedState(1).end_time)

\* The call under way or last returned was made with a URL that yields no
\* video id: none at all, or the empty one.
NoVideoId == get_video_id_from_url(args.url) \in {None, Some(NoId)}

\* C26: for a URL from which no video id can be extracted, run_workflow
\* attempts no stage and returns a state with error "Invalid YouTube URL",
\* error_node "workflow_manager", both completion flags false, and
\* video_id, video_data and analysis_result unset.
C26_InvalidUrlRunsNothing ==
    (pc # "idle" /\ NoVideoId) =>
        /\ calls = <<>>
        /\ pc = "returned" =>
              /\ state.error = Some("Invalid YouTube URL")
              /\ state.error_node = Some("workflow_manager")
              /\ ~state.transcript_extraction_completed
              /\ ~state.transcript_analysis_completed
              /\ state.video_id = None
              /\ state.video_data = None
              /\ state.analysis_result = None

\* A call with an API key and a URL without a video id has returned.
C26_Witness ==
    /\ pc = "returned"
    /\ NoVideoId
    /\ apiKey
    /\ args.url.netloc = "youtu.be"
    /\ state.error = Some("Invalid YouTube URL")

\* C27: in every state run_workflow returns, transcript_analysis_completed
\* is true exactly when analysis_result is present; a run in which the
\* analysis node recorded an error returns neither.
C27_FlagIffAnalysisResult ==
    pc = "returned" =>
        (state.transcript_analysis_completed <=> state.analysis_result # None)

\* C28: every state run_workflow returns has start_time and end_time set,
\* on every return path.
C28_TimesSetOnEveryReturn ==
    pc = "returned" =>
        /\ state.start_time # None
        /\ state.end_time # None

\* C29: when the metadata fetch succeeds, the record the transcript agent
\* builds has the title, description, channel and view count of the
\* mapping get_youtube_video_data returned, not the defaults.
C29_RecordCarriesFetchedValues ==
    (agentMeta # None /\ videoRec # None) =>
        LET fetched == Val(agentMeta)
            rec == Val(videoRec)
        IN  /\ rec.title = fetched.video.title
            /\ rec.description = fetched.video.description
            /\ rec.channel = fetched.channel.title
            /\ rec.view_count = fetched.video.views
            /\ rec.title # "No title"
            /\ rec.description # "No description"
            /\ rec.channel # "Unknown"

\* C30: fallback extraction emits at most one topic segment per detected
\* topic: no topic label appears in two entries of the topic_segments of a
\* record it returns, however many sections the text has.
C30_OneSegmentPerTopic ==
    \A i \in 1..Len(fresults) :
        \A j, k \in 1..Len(fresults[i].topic_segments) :
            j # k => fresults[i].topic_segments[j].topic
                        # fresults[i].topic_segments[k].topic

====
